---- MODULE Spec2Model ----
(***************************************************************************)
(* Verification model of vibekit: the items CRUD storage and its HTTP      *)
(* handler chain (server), the path matcher, and the client-side router.   *)
(*                                                                         *)
(* Strings are sequences of one-character strings, so that split, trim and *)
(* percent-decoding are computed character by character as the code does.  *)
(***************************************************************************)
EXTENDS Integers, Sequences, FiniteSets, TLC

\* ------------------------------------------------------------------------
\* Bounds of the model
\* ------------------------------------------------------------------------
MaxPathSegs == 4
MaxPatSegs == 3
MaxIds == 2
MaxClock == 1
MaxConns == 2
MaxNavs == 3
MaxRoutes == 2
MaxRegs == 3
MaxWriters == 2
MaxReaders == 1
MaxWrites == 3
MaxToasts == 8
MaxLoads == 3
MaxOverlays == 4
MaxCalls == 4

\* ------------------------------------------------------------------------
\* Strings
\* ------------------------------------------------------------------------
Slash == "/"
Colon == ":"
Percent == "%"
Space == " "

s_api == <<"a", "p", "i">>
s_items == <<"i", "t", "e", "m", "s">>
s_extra == <<"e", "x", "t", "r", "a">>
s_other == <<"o", "t", "h", "e", "r">>
s_42 == <<"4", "2">>
s_id == <<"i", "d">>
s_colon_id == <<":", "i", "d">>
s_pct41 == <<"%", "4", "1">>
s_pct4 == <<"%", "4">>
s_pct81 == <<"%", "8", "1">>

\* '/api/items' and '/api/items/:id' as written in handleItems
p_api_items == <<Slash>> \o s_api \o <<Slash>> \o s_items
p_api_items_id == p_api_items \o <<Slash>> \o s_colon_id

\* Array.prototype.join('/') with a leading '/'
RECURSIVE JoinSegs(_)
JoinSegs(segs) ==
  IF segs = << >> THEN << >>
  ELSE <<Slash>> \o Head(segs) \o JoinSegs(Tail(segs))

\* String.prototype.split('/') followed by .filter(Boolean): the non-empty
\* pieces between slashes, in order.
RECURSIVE SplitFrom(_, _, _, _)
SplitFrom(s, i, cur, acc) ==
  IF i > Len(s)
  THEN IF cur = << >> THEN acc ELSE Append(acc, cur)
  ELSE IF s[i] = Slash
       THEN SplitFrom(s, i + 1, << >>, IF cur = << >> THEN acc ELSE Append(acc, cur))
       ELSE SplitFrom(s, i + 1, Append(cur, s[i]), acc)

SplitPath(s) == SplitFrom(s, 1, << >>, << >>)

\* String.prototype.startsWith(':')
StartsWithColon(seg) == Len(seg) >= 1 /\ seg[1] = Colon

\* String.prototype.slice(1)
Slice1(seg) == IF Len(seg) <= 1 THEN << >> ELSE SubSeq(seg, 2, Len(seg))

\* Hexadecimal digits and their values.
HexDigit == {"0", "1", "2", "3", "4", "5", "6", "7", "8", "9",
             "a", "b", "c", "d", "e", "f", "A", "B", "C", "D", "E", "F"}
HexVal(c) == CASE c = "0" -> 0 [] c = "1" -> 1 [] c = "2" -> 2 [] c = "3" -> 3
               [] c = "4" -> 4 [] c = "5" -> 5 [] c = "6" -> 6 [] c = "7" -> 7
               [] c = "8" -> 8 [] c = "9" -> 9
               [] c \in {"a", "A"} -> 10 [] c \in {"b", "B"} -> 11
               [] c \in {"c", "C"} -> 12 [] c \in {"d", "D"} -> 13
               [] c \in {"e", "E"} -> 14 [] c \in {"f", "F"} -> 15

\* The character with code point cp.  The letters, digits and punctuation
\* of the modelled strings are written as themselves, any other code point
\* by its number.
Chr(cp) == CASE cp = 32 -> " " [] cp = 37 -> "%" [] cp = 47 -> "/" [] cp = 58 -> ":"
             [] cp = 50 -> "2" [] cp = 52 -> "4"
             [] cp = 65 -> "A" [] cp = 66 -> "B"
             [] cp = 97 -> "a" [] cp = 98 -> "b" [] cp = 100 -> "d"
             [] OTHER -> "U+" \o ToString(cp)

\* The byte written as '%XX' at position i of s, or -1 if there is none.
PctByte(s, i) ==
  IF i + 2 > Len(s) \/ s[i] # Percent
     \/ s[i + 1] \notin HexDigit \/ s[i + 2] \notin HexDigit
  THEN -1
  ELSE 16 * HexVal(s[i + 1]) + HexVal(s[i + 2])

\* Number of bytes of the UTF-8 sequence a lead byte starts, 0 if the byte
\* cannot start one.
Utf8Len(b) == IF b < 128 THEN 1
              ELSE IF b >= 194 /\ b <= 223 THEN 2
              ELSE IF b >= 224 /\ b <= 239 THEN 3
              ELSE IF b >= 240 /\ b <= 244 THEN 4
              ELSE 0

\* The payload bits of the lead byte of an n-byte sequence
Utf8Lead(b) == IF b < 128 THEN b
               ELSE IF b <= 223 THEN b - 192
               ELSE IF b <= 239 THEN b - 224
               ELSE b - 240

\* Continuation bytes k..n of a sequence whose first '%XX' is at i:
\* the code point accumulated so far, or -1 on a malformed sequence.
RECURSIVE Utf8Cont(_, _, _, _, _)
Utf8Cont(s, i, k, n, cp) ==
  IF k > n THEN cp
  ELSE IF PctByte(s, i + 3 * (k - 1)) < 128 \/ PctByte(s, i + 3 * (k - 1)) > 191
  THEN -1
  ELSE Utf8Cont(s, i, k + 1, n, cp * 64 + (PctByte(s, i + 3 * (k - 1)) - 128))

Utf8Valid(n, cp) ==
  CASE n = 1 -> cp >= 0
    [] n = 2 -> cp >= 128
    [] n = 3 -> cp >= 2048 /\ ~(cp >= 55296 /\ cp <= 57343)
    [] n = 4 -> cp >= 65536 /\ cp <= 1114111
    [] OTHER -> FALSE

DecodeFail == [ok |-> FALSE, v |-> << >>]

\* decodeURIComponent: every '%' must start a well-formed UTF-8 sequence of
\* '%XX' bytes, which decodes to one character; any other character is
\* copied.  ok = FALSE stands for the URIError the function throws.
RECURSIVE DecodeFrom(_, _, _)
RECURSIVE DecodeByte(_, _, _, _)
RECURSIVE DecodeSeq(_, _, _, _, _)

\* The character at i is '%': b is the byte written there (-1 if none)
DecodeByte(s, i, acc, b) ==
  IF b < 0 \/ Utf8Len(b) = 0 THEN DecodeFail
  ELSE DecodeSeq(s, i, acc, Utf8Len(b), Utf8Cont(s, i, 2, Utf8Len(b), Utf8Lead(b)))

\* The n-byte sequence at i decodes to code point cp (-1 if malformed)
DecodeSeq(s, i, acc, n, cp) ==
  IF cp < 0 \/ ~Utf8Valid(n, cp) THEN DecodeFail
  ELSE DecodeFrom(s, i + 3 * n, Append(acc, Chr(cp)))

DecodeFrom(s, i, acc) ==
  IF i > Len(s) THEN [ok |-> TRUE, v |-> acc]
  ELSE IF s[i] # Percent THEN DecodeFrom(s, i + 1, Append(acc, s[i]))
  ELSE DecodeByte(s, i, acc, PctByte(s, i))

decodeURIComponent(s) == DecodeFrom(s, 1, << >>)

NoParams == [x \in {} |-> << >>]
MatchNull == [kind |-> "null", params |-> NoParams]
MatchThrow == [kind |-> "throw", params |-> NoParams]

\* The loop of matchPath over the segment index i.
RECURSIVE MatchLoop(_, _, _, _)
MatchLoop(patternParts, pathParts, i, params) ==
  IF i > Len(patternParts) THEN [kind |-> "params", params |-> params]
  ELSE IF StartsWithColon(patternParts[i])
       THEN LET d == decodeURIComponent(pathParts[i])
            IN IF ~d.ok THEN MatchThrow
               ELSE MatchLoop(patternParts, pathParts, i + 1,
                              (Slice1(patternParts[i]) :> d.v) @@ params)
       ELSE IF patternParts[i] # pathParts[i] THEN MatchNull
            ELSE MatchLoop(patternParts, pathParts, i + 1, params)

\* (mutant of matchPath: a path with more segments than the pattern is let
\* through to the loop)
matchPath_prefix(pattern, pathname) ==
  IF Len(SplitPath(pattern)) > Len(SplitPath(pathname)) THEN MatchNull
  ELSE MatchLoop(SplitPath(pattern), SplitPath(pathname), 1, NoParams)

matchPath(pattern, pathname) ==
  LET patternParts == SplitPath(pattern)
      pathParts == SplitPath(pathname)
  IN IF Len(patternParts) # Len(pathParts) THEN MatchNull
     ELSE MatchLoop(patternParts, pathParts, 1, NoParams)

\* ------------------------------------------------------------------------
\* JavaScript values of the request body fields
\* ------------------------------------------------------------------------
Undefined == [t |-> "undefined", v |-> << >>]
JsNumber == [t |-> "number", v |-> << >>]
JsString(str) == [t |-> "string", v |-> str]

\* String.prototype.trim
RECURSIVE TrimStart(_)
TrimStart(str) ==
  IF str # << >> /\ Head(str) = Space THEN TrimStart(Tail(str)) ELSE str

RECURSIVE TrimEnd(_)
TrimEnd(str) ==
  IF str # << >> /\ str[Len(str)] = Space
  THEN TrimEnd(SubSeq(str, 1, Len(str) - 1)) ELSE str

Trim(str) == TrimEnd(TrimStart(str))

\* !value, for the values above (the number is a non-zero one)
Falsy(val) == val.t = "undefined" \/ (val.t = "string" /\ val.v = << >>)

\* ------------------------------------------------------------------------
\* Items storage (server/storage/items.ts)
\* ------------------------------------------------------------------------
NoItem == [id |-> << >>, name |-> << >>, description |-> << >>,
           createdAt |-> -1, updatedAt |-> -1]

\* The content of ITEMS_FILE: absent, a complete JSON array, or bytes that
\* are not a JSON document (a file opened with truncation and not yet
\* written, or a zero-byte file).
AbsentFile == [kind |-> "absent", items |-> << >>]
PartialFile == [kind |-> "partial", items |-> << >>]
\* JSON.stringify(items, null, 2) as written by writeItems
JSONstringify(items) == [kind |-> "json", items |-> items]

\* randomUUID(): the n-th identifier generated by the process
randomUUID(n) == <<"e", ToString(n)>>

\* readFile(ITEMS_FILE, 'utf-8'): the content, or a rejection when the
\* system call fails for another reason than the file not existing
ReadError == [kind |-> "error", items |-> << >>]
readFile(f, d) == IF d = "readfail" THEN ReadError ELSE f

\* readItems: the parsed array; any failure of readFile or JSON.parse is
\* caught and yields [].
readItems(f) == IF f.kind = "json" THEN f.items ELSE << >>

\* Array.prototype.findIndex by id, 0 standing for -1
RECURSIVE FindIndexFrom(_, _, _)
FindIndexFrom(items, id, i) ==
  IF i > Len(items) THEN 0
  ELSE IF items[i].id = id THEN i
  ELSE FindIndexFrom(items, id, i + 1)

findIndex(items, id) == FindIndexFrom(items, id, 1)

\* items.find(...) || null, NoItem standing for null
find(items, id) ==
  LET i == findIndex(items, id) IN IF i = 0 THEN NoItem ELSE items[i]

\* (mutant of push: the new item is put in front)
push_unshift(items, item) == <<item>> \o items

\* items.push(item)
push(items, item) == Append(items, item)

\* (mutant of updatedItem: the spread of the old record is lost, so that
\* createdAt is set anew)
updatedItem_nospread(old, data, now) ==
  [id |-> old.id, name |-> data.name, description |-> data.description,
   createdAt |-> now, updatedAt |-> now]

\* { ...items[index], name, description, updatedAt: now } of updateItem
updatedItem(old, data, now) ==
  [old EXCEPT !.name = data.name, !.description = data.description,
              !.updatedAt = now]

\* (mutant of splice: two elements are removed)
splice_two(items, index) ==
  SubSeq(items, 1, index - 1) \o SubSeq(items, index + 2, Len(items))

\* items.splice(index, 1)
splice(items, index) ==
  SubSeq(items, 1, index - 1) \o SubSeq(items, index + 1, Len(items))

\* ------------------------------------------------------------------------
\* HTTP responses (server/utils/http.ts)
\* ------------------------------------------------------------------------
BodyNone == [t |-> "none", item |-> NoItem, items |-> << >>, error |-> ""]
BodyNull == [t |-> "null", item |-> NoItem, items |-> << >>, error |-> ""]
BodyItem(item) == [t |-> "item", item |-> item, items |-> << >>, error |-> ""]
BodyItems(items) == [t |-> "items", item |-> NoItem, items |-> items, error |-> ""]
BodyError(msg) == [t |-> "error", item |-> NoItem, items |-> << >>, error |-> msg]

sendJson(status, data) == [status |-> status, body |-> data]

\* (mutant of ok: status 200 also when data is undefined)
ok_always200(data) == [status |-> 200, body |-> data]

\* ok(res, data): 204 without a body when data is undefined
ok(data) == IF data.t = "none" THEN [status |-> 204, body |-> BodyNone]
            ELSE sendJson(200, data)
created(data) == sendJson(201, data)
badRequest(msg) == sendJson(400, BodyError(msg))
notFound(msg) == sendJson(404, BodyError(msg))
\* the catch block of handleRequest
internalError == sendJson(500, BodyError("Internal server error"))

\* Request bodies: no bytes, bytes that are not JSON, or a JSON object
EmptyBody == [kind |-> "empty", name |-> Undefined, description |-> Undefined]
MalformedBody == [kind |-> "malformed", name |-> Undefined, description |-> Undefined]
ObjectBody(n, d) == [kind |-> "object", name |-> n, description |-> d]


\* ------------------------------------------------------------------------
\* State
\* ------------------------------------------------------------------------
VARIABLES
  file,       \* content of data/items.json
  clock,      \* the wall clock read by new Date()
  uuids,      \* number of identifiers randomUUID() has produced
  conn,       \* the tasks of the server process: HTTP requests being handled
              \* and direct calls of the storage functions
  hist        \* history: the records createItem has returned, for as long as
              \* no updateItem or deleteItem has written the file

VARIABLES
  mpPattern,   \* segments of the pattern handed to matchPath
  mpPath,      \* segments of the pathname handed to matchPath
  mpTrailing,  \* whether the pathname ends with a slash
  mpResult,    \* what matchPath returned ("pending" before the call)
  mrResult     \* what the router's matchRoute returned for the same strings

VARIABLES
  routes,           \* the routes Map, as its entries in insertion order
  notFoundHandler,  \* "" for null
  currentCleanup,   \* 0 for null, else the handleRoute run whose handler returned it
  pathname,         \* window.location.pathname
  started,          \* startRouter has installed the listeners
  runs,             \* the invocations of handleRoute
  nruns,            \* number of invocations of handleRoute so far
  cleanupCalls,     \* how often the cleanup returned by each run was invoked
  returned,         \* the runs whose handler returned a function
  registered,       \* history: the calls of route(), in the order they were made
  failed,           \* history: the runs whose cleanup threw or rejected
  lookup            \* history: the path and the handler of the latest route lookup

VARIABLES
  disk        \* the condition of the data directory: "ok", or the system call
              \* that fails on it ("readfail", "writefail", "full")

serverVars == <<file, clock, uuids, conn, hist>>

VARIABLES
  ckLink,     \* the anchor element and the mouse event of a click
  ckResult    \* what the click listener did ("pending" before it runs)

clickVars == <<ckLink, ckResult>>

VARIABLES
  st          \* a call of serveStatic: the request path, the files and
              \* directories under the client directory, the position, the
              \* file path chosen and the response

VARIABLES
  ac          \* a call of the client's api(): the body option, what the
              \* network will do, the position, the number of fetch calls
              \* and the outcome of the returned promise

VARIABLES
  fsys        \* calls of writeJsonFileAtomic and readJsonFile on one path: the
              \* file at the path, the temp files, the calls in progress

VARIABLES
  ts          \* the toast module: the sl-alert elements created so far and
              \* the activeToasts Map

VARIABLES
  ld          \* the loading overlay: overlayEl, the overlay elements in the
              \* document, and the calls of withLoading and withLoadingProgress

VARIABLES
  db          \* one debounced function: timeoutId, lastArgs, the timers that
              \* are set, whether fn is running, and the history of the calls
              \* and of the invocations of fn

libVars == <<fsys, ts, ld, db>>

\* The variables of everything but the library modules below
appVars == <<file, clock, uuids, conn, hist, mpPattern, mpPath, mpTrailing, mpResult,
             mrResult, routes, notFoundHandler, currentCleanup, pathname, started,
             runs, nruns, cleanupCalls, returned, registered, failed, lookup,
             disk, ckLink, ckResult, st, ac>>

otherVars == <<disk, clickVars, st, ac, libVars>>

matchVars == <<mpPattern, mpPath, mpTrailing, mpResult, mrResult>>

routerVars == <<routes, notFoundHandler, currentCleanup, pathname, started,
                runs, nruns, cleanupCalls, returned, registered, failed, lookup>>

vars == <<file, clock, uuids, conn, hist, disk, ckLink, ckResult, st, ac, fsys, ts, ld, db, mpPattern, mpPath, mpTrailing, mpResult, mrResult,
          routes, notFoundHandler, currentCleanup, pathname, started,
          runs, nruns, cleanupCalls, returned, registered, failed, lookup>>

Conns == 1..MaxConns

\* The handler chain of handleApi, in registration order
HANDLERS == <<"handleItems">>

InitHistory == [pure |-> TRUE, created |-> << >>]
NoHistory == [pure |-> FALSE, created |-> << >>]

NoData == [name |-> << >>, description |-> << >>]

IdleConn ==
  [pc |-> "idle", via |-> "", method |-> "", path |-> << >>, body |-> EmptyBody,
   op |-> "", id |-> << >>, data |-> NoData, existing |-> NoItem,
   items |-> << >>, item |-> NoItem, tried |-> << >>, out |-> << >>,
   ret |-> "", pre |-> AbsentFile, saw |-> ""]

Running(r) == conn[r].pc \notin {"idle", "done"}

\* Tasks that will still call randomUUID()
PendingCreates ==
  Cardinality({r \in Conns : conn[r].pc \in {"json", "createItem"}
                             /\ (conn[r].method = "POST" \/ conn[r].op = "createItem")})

\* ------------------------------------------------------------------------
\* Inputs
\* ------------------------------------------------------------------------
Methods == {"GET", "POST", "PUT", "DELETE", "PATCH", "OPTIONS"}

KnownIds == {randomUUID(n) : n \in 1..MaxIds}

\* Request paths under /api/
ApiPaths ==
  {p_api_items, <<Slash>> \o s_api \o <<Slash>> \o s_other,
   p_api_items \o <<Slash>> \o s_42, p_api_items \o <<Slash>> \o s_pct4}
  \cup {p_api_items \o <<Slash>> \o id : id \in KnownIds}

NameValues == {Undefined, JsNumber, JsString(<< >>), JsString(<<" ">>),
               JsString(<<"a">>), JsString(<<" ", "b">>)}
DescriptionValues == {Undefined, JsNumber, JsString(<< >>), JsString(<<" ", "d">>)}

Bodies == {EmptyBody, MalformedBody}
          \cup {ObjectBody(n, d) : n \in NameValues, d \in DescriptionValues}

\* Arguments of direct calls of the storage functions (typed strings)
CallIds == KnownIds \cup {s_42}
CallData == [name : {<<"a">>, <<"b">>}, description : {<< >>, <<"d">>}]
StorageOps == {"listItems", "getItem", "createItem", "updateItem", "deleteItem"}

\* startsWith('/api/')
StartsWithApi(path) ==
  Len(path) >= 5 /\ SubSeq(path, 1, 5) = <<Slash>> \o s_api \o <<Slash>>

\* ------------------------------------------------------------------------
\* handleRequest / handleApi / handleItems
\* ------------------------------------------------------------------------
\* A response is written and the handler returns true.
Respond(c, resp) ==
  [c EXCEPT !.pc = "done", !.out = Append(c.out, resp),
            !.tried = Append(c.tried, [h |-> "handleItems", ret |-> "true",
                                       wrote |-> Len(c.out) + 1])]

\* The handler throws; handleApi propagates and handleRequest's catch block
\* writes the 500 response.
Throw(c) ==
  [c EXCEPT !.pc = "done", !.out = Append(c.out, internalError),
            !.tried = Append(c.tried, [h |-> "handleItems", ret |-> "throw",
                                       wrote |-> Len(c.out)])]

\* (mutant of ReturnFalse: handleApi forgets the final notFound)
ReturnFalse_silent(c) ==
  [c EXCEPT !.pc = "done",
            !.tried = Append(c.tried, [h |-> "handleItems", ret |-> "false",
                                       wrote |-> Len(c.out)])]

\* The handler returns false; handleApi goes on with the next handler of
\* the chain and sends the generic 404 after the last one.
ReturnFalse(c) ==
  LET t == Append(c.tried, [h |-> "handleItems", ret |-> "false",
                            wrote |-> Len(c.out)])
  IN IF Len(t) = Len(HANDLERS)
     THEN [c EXCEPT !.pc = "done", !.tried = t,
                    !.out = Append(c.out, notFound("Not found"))]
     ELSE [c EXCEPT !.tried = t]

\* handleItems up to its first await
handleItems(c) ==
  IF c.path = p_api_items /\ c.method = "GET"
  THEN [c EXCEPT !.pc = "listItems", !.op = "listItems"]
  ELSE IF c.path = p_api_items /\ c.method = "POST"
  THEN [c EXCEPT !.pc = "json"]
  ELSE LET m == matchPath(p_api_items_id, c.path)
       IN IF m.kind = "throw" THEN Throw(c)
          ELSE IF m.kind = "params" /\ c.method \in {"GET", "PUT", "DELETE"}
          THEN [c EXCEPT !.pc = "getItem", !.op = "getItem", !.id = m.params[s_id]]
          ELSE ReturnFalse(c)

\* handleRequest: a request arrives
StartRequest(r, method, path, body) ==
  /\ conn[r].pc = "idle"
  /\ StartsWithApi(path)
  /\ method = "POST" => uuids + PendingCreates < MaxIds
  /\ LET c == [IdleConn EXCEPT !.via = "http", !.method = method, !.path = path,
                               !.body = body, !.pre = file]
     IN conn' = [conn EXCEPT ![r] =
                   IF method = "OPTIONS"
                   THEN [c EXCEPT !.pc = "done",
                                  !.out = <<[status |-> 204, body |-> BodyNone]>>]
                   ELSE handleItems(c)]
  /\ UNCHANGED <<file, clock, uuids, hist>>
  /\ UNCHANGED <<matchVars, routerVars, otherVars>>

\* A direct call of an exported storage function
StartCall(r, op, id, data) ==
  /\ conn[r].pc = "idle"
  /\ op = "createItem" => uuids + PendingCreates < MaxIds
  /\ conn' = [conn EXCEPT ![r] =
       [IdleConn EXCEPT !.via = "direct", !.pc = op, !.op = op,
                        !.id = IF op \in {"listItems", "createItem"} THEN << >> ELSE id,
                        !.data = IF op \in {"createItem", "updateItem"} THEN data ELSE NoData,
                        !.pre = file]]
  /\ UNCHANGED <<file, clock, uuids, hist>>
  /\ UNCHANGED <<matchVars, routerVars, otherVars>>


\* A direct call returns.
Return(c, ret, item, items) ==
  [c EXCEPT !.pc = "done", !.ret = ret, !.item = item, !.items = items]

\* writeFile rejects: the storage function rejects, and so does handleItems
Reject(c) ==
  IF c.via = "direct" THEN [c EXCEPT !.pc = "done", !.ret = "throw"]
  ELSE Throw(c)

\* listItems: readFile completes, readItems returns
ListItemsRead(r) ==
  /\ conn[r].pc = "listItems"
  /\ LET c == [conn[r] EXCEPT !.saw = readFile(file, disk).kind]
         items == readItems(readFile(file, disk))
     IN conn' = [conn EXCEPT ![r] =
                   IF c.via = "direct" THEN Return(c, "items", NoItem, items)
                   ELSE Respond(c, ok(BodyItems(items)))]
  /\ UNCHANGED <<file, clock, uuids, hist>>
  /\ UNCHANGED <<matchVars, routerVars, otherVars>>

\* getItem: readFile completes; the GET, PUT and DELETE branches of
\* handleItems continue up to their next await
GetItemRead(r) ==
  /\ conn[r].pc = "getItem"
  /\ LET c == [conn[r] EXCEPT !.saw = readFile(file, disk).kind]
         item == find(readItems(readFile(file, disk)), c.id)
     IN conn' = [conn EXCEPT ![r] =
          IF c.via = "direct"
          THEN Return(c, IF item = NoItem THEN "null" ELSE "item", item, << >>)
          ELSE IF item = NoItem THEN Respond(c, notFound("Item not found"))
          ELSE IF c.method = "GET" THEN Respond(c, ok(BodyItem(item)))
          ELSE IF c.method = "PUT"
          THEN [c EXCEPT !.pc = "json", !.op = "", !.existing = item]
          ELSE [c EXCEPT !.pc = "deleteItem", !.op = "deleteItem", !.existing = item]]
  /\ UNCHANGED <<file, clock, uuids, hist>>
  /\ UNCHANGED <<matchVars, routerVars, otherVars>>

\* The name check of POST /api/items
postNameInvalid(name) ==
  Falsy(name) \/ name.t # "string" \/ Trim(name.v) = << >>

\* (mutant of putNameInvalid: the name is not trimmed before the test)
putNameInvalid_notrim(name) ==
  name.t # "undefined" /\ (name.t # "string" \/ name.v = << >>)

\* The name check of PUT /api/items/:id
putNameInvalid(name) ==
  name.t # "undefined" /\ (name.t # "string" \/ Trim(name.v) = << >>)

\* json(req) completes; validation of the POST and PUT branches
JsonBody(r) ==
  /\ conn[r].pc = "json"
  /\ LET c == conn[r]
         name == c.body.name
         desc == c.body.description
     IN conn' = [conn EXCEPT ![r] =
          IF c.body.kind = "malformed" THEN Throw(c)
          ELSE IF c.method = "POST"
          THEN IF postNameInvalid(name)
               THEN Respond(c, badRequest("Name is required"))
               ELSE IF desc.t = "number" THEN Throw(c)
               ELSE [c EXCEPT !.pc = "createItem", !.op = "createItem",
                       !.data = [name |-> Trim(name.v),
                                 description |-> IF desc.t = "string"
                                                 THEN Trim(desc.v) ELSE << >>]]
          ELSE IF putNameInvalid(name)
               THEN Respond(c, badRequest("Name cannot be empty"))
               ELSE IF desc.t = "number" THEN Throw(c)
               ELSE [c EXCEPT !.pc = "updateItem", !.op = "updateItem",
                       !.data = [name |-> IF name.t = "undefined"
                                          THEN c.existing.name ELSE Trim(name.v),
                                 description |-> IF desc.t = "undefined"
                                                 THEN c.existing.description
                                                 ELSE Trim(desc.v)]]]
  /\ UNCHANGED <<file, clock, uuids, hist>>
  /\ UNCHANGED <<matchVars, routerVars, otherVars>>

\* createItem: readItems returns; the item is built and pushed, writeItems
\* is called
CreateItemRead(r) ==
  /\ conn[r].pc = "createItem"
  /\ LET c == [conn[r] EXCEPT !.saw = readFile(file, disk).kind]
         items == readItems(readFile(file, disk))
         now == clock
         item == [id |-> randomUUID(uuids + 1), name |-> c.data.name,
                  description |-> c.data.description,
                  createdAt |-> now, updatedAt |-> now]
     IN conn' = [conn EXCEPT ![r] =
                   [c EXCEPT !.pc = "writeOpen", !.items = push(items, item),
                             !.item = item]]
  /\ uuids' = uuids + 1
  /\ UNCHANGED <<file, clock, hist>>
  /\ UNCHANGED <<matchVars, routerVars, otherVars>>

\* (mutant of UpdateItemRead: the index === -1 check is missing, so that the
\* array, unchanged by items[-1] = updated, is written back)
UpdateItemRead_nocheck(r) ==
  /\ conn[r].pc = "updateItem"
  /\ LET c == [conn[r] EXCEPT !.saw = readFile(file, disk).kind]
         items == readItems(readFile(file, disk))
         index == findIndex(items, c.id)
         updated == updatedItem(IF index = 0 THEN NoItem ELSE items[index], c.data, clock)
     IN conn' = [conn EXCEPT ![r] =
          [c EXCEPT !.pc = "writeOpen", !.item = updated,
                    !.items = IF index = 0 THEN items
                              ELSE [items EXCEPT ![index] = updated]]]
  /\ UNCHANGED <<file, clock, uuids, hist>>
  /\ UNCHANGED <<matchVars, routerVars, otherVars>>

\* updateItem: readItems returns; null when the id is not found, otherwise
\* the record is replaced in place and writeItems is called
UpdateItemRead(r) ==
  /\ conn[r].pc = "updateItem"
  /\ LET c == [conn[r] EXCEPT !.saw = readFile(file, disk).kind]
         items == readItems(readFile(file, disk))
         index == findIndex(items, c.id)
         updated == updatedItem(items[index], c.data, clock)
     IN conn' = [conn EXCEPT ![r] =
          IF index = 0
          THEN IF c.via = "direct" THEN Return(c, "null", NoItem, << >>)
               ELSE Respond(c, ok(BodyNull))
          ELSE [c EXCEPT !.pc = "writeOpen", !.item = updated,
                         !.items = [items EXCEPT ![index] = updated]]]
  /\ UNCHANGED <<file, clock, uuids, hist>>
  /\ UNCHANGED <<matchVars, routerVars, otherVars>>

\* deleteItem: readItems returns; false when the id is not found, otherwise
\* the record is spliced out and writeItems is called
DeleteItemRead(r) ==
  /\ conn[r].pc = "deleteItem"
  /\ LET c == [conn[r] EXCEPT !.saw = readFile(file, disk).kind]
         items == readItems(readFile(file, disk))
         index == findIndex(items, c.id)
     IN conn' = [conn EXCEPT ![r] =
          IF index = 0
          THEN IF c.via = "direct" THEN Return(c, "false", NoItem, << >>)
               ELSE Respond(c, ok(BodyNone))
          ELSE [c EXCEPT !.pc = "writeOpen", !.items = splice(items, index)]]
  /\ UNCHANGED <<file, clock, uuids, hist>>
  /\ UNCHANGED <<matchVars, routerVars, otherVars>>

\* writeItems: mkdir has completed and writeFile opens the file, which
\* truncates it
WriteOpen(r) ==
  /\ conn[r].pc = "writeOpen"
  /\ IF disk = "writefail"
     THEN /\ file' = file
          /\ conn' = [conn EXCEPT ![r] = Reject(conn[r])]
     ELSE /\ file' = PartialFile
          /\ conn' = [conn EXCEPT ![r].pc = "writeData"]
  /\ UNCHANGED <<clock, uuids, hist>>
  /\ UNCHANGED <<matchVars, routerVars, otherVars>>

\* (mutant of WriteData: a created record is appended to the array the file
\* holds at the time of the write, when it holds one)
WriteData_merge(r) ==
  /\ conn[r].pc = "writeData"
  /\ file' = IF conn[r].op = "createItem" /\ file.kind = "json"
             THEN JSONstringify(Append(file.items, conn[r].item))
             ELSE JSONstringify(conn[r].items)
  /\ conn' = [conn EXCEPT ![r] =
       IF conn[r].method = "POST" THEN Respond(conn[r], created(BodyItem(conn[r].item)))
       ELSE IF conn[r].method = "PUT" THEN Respond(conn[r], ok(BodyItem(conn[r].item)))
       ELSE Respond(conn[r], ok(BodyNone))]
  /\ hist' = NoHistory
  /\ UNCHANGED <<clock, uuids>>
  /\ UNCHANGED <<matchVars, routerVars, otherVars>>

\* writeItems: writeFile writes the serialized array; the storage function
\* returns and the handler sends its response
WriteData(r) ==
  /\ conn[r].pc = "writeData"
  /\ file' = IF disk = "full" THEN file ELSE JSONstringify(conn[r].items)
  /\ LET c == conn[r]
     IN conn' = [conn EXCEPT ![r] =
          IF disk = "full" THEN Reject(c)
          ELSE IF c.via = "direct"
          THEN Return(c, IF c.op = "deleteItem" THEN "true" ELSE "item", c.item, c.items)
          ELSE IF c.method = "POST" THEN Respond(c, created(BodyItem(c.item)))
          ELSE IF c.method = "PUT" THEN Respond(c, ok(BodyItem(c.item)))
          ELSE Respond(c, ok(BodyNone))]
  /\ hist' = IF disk = "full" THEN NoHistory
             ELSE IF conn[r].op = "createItem"
             THEN [hist EXCEPT !.created = IF hist.pure THEN Append(@, conn[r].item) ELSE @]
             ELSE NoHistory
  /\ UNCHANGED <<clock, uuids>>
  /\ UNCHANGED <<matchVars, routerVars, otherVars>>

\* The response has been sent (or the call's result consumed)
Release(r) ==
  /\ conn[r].pc = "done"
  /\ conn' = [conn EXCEPT ![r] = IdleConn]
  /\ UNCHANGED <<file, clock, uuids, hist>>
  /\ UNCHANGED <<matchVars, routerVars, otherVars>>

\* Time passes
Tick ==
  /\ clock < MaxClock
  /\ clock' = clock + 1
  /\ UNCHANGED <<file, uuids, conn, hist>>
  /\ UNCHANGED <<matchVars, routerVars, otherVars>>


\* ------------------------------------------------------------------------
\* Path matcher inputs (a pattern and a path, as lists of segments)
\* ------------------------------------------------------------------------
PatternSegs == {s_api, s_items, s_colon_id}
PathSegs == {s_api, s_items, s_42, s_extra, s_pct41, s_pct4}

RECURSIVE SeqsUpTo(_, _)
SeqsUpTo(S, n) ==
  IF n = 0 THEN {<< >>}
  ELSE LET shorter == SeqsUpTo(S, n - 1)
       IN shorter \cup {Append(q, x) : q \in shorter, x \in S}

MatchPending == [kind |-> "pending", params |-> NoParams]

\* The strings handed to matchPath
PatternString(segs) == JoinSegs(segs)
PathString(segs, trailing) ==
  IF segs = << >> THEN <<Slash>>
  ELSE JoinSegs(segs) \o (IF trailing THEN <<Slash>> ELSE << >>)

MatchIdle ==
  /\ mpPattern = << >>
  /\ mpPath = << >>
  /\ mpTrailing = FALSE
  /\ mpResult = MatchPending
  /\ mrResult = MatchPending

\* matchPath is called on the chosen pattern and path
CallMatchPath ==
  /\ mpResult = MatchPending
  /\ mpResult' = matchPath(PatternString(mpPattern), PathString(mpPath, mpTrailing))
  /\ UNCHANGED <<mpPattern, mpPath, mpTrailing, mrResult>>
  /\ UNCHANGED <<serverVars, routerVars, otherVars>>

\* ------------------------------------------------------------------------
\* Client-side router (client/lib/router.js)
\* ------------------------------------------------------------------------
s_settings == <<"s", "e", "t", "t", "i", "n", "g", "s">>
p_root == <<Slash>>
p_settings == <<Slash>> \o s_settings
p_items_id == <<Slash>> \o s_items \o <<Slash>> \o s_colon_id
p_page == <<Slash, Colon, "p", "a", "g", "e">>
p_items_42 == <<Slash>> \o s_items \o <<Slash>> \o s_42
p_items_bad == <<Slash>> \o s_items \o <<Slash>> \o s_pct4

RoutePatterns == {p_settings, p_items_id, p_page}
\* Every call of route() passes a function of its own: the k-th call
\* passes HandlerAt[k]
HandlerAt == <<"home", "settings", "detail", "page">>
RouteHandlers == {HandlerAt[k] : k \in DOMAIN HandlerAt}
Locations == {p_root, p_settings, p_items_42, p_items_bad}

Navs == 1..MaxNavs

\* A run of handleRoute: where it is (awaiting the cleanup, awaiting the
\* handler, returned), the path it read, the handler it invoked, and the
\* runs whose cleanup function had been returned when it was called
NoRun == [pc |-> "unused", path |-> << >>, handler |-> "", away |-> {}, cleaning |-> 0]
DoneRun == [pc |-> "done", path |-> << >>, handler |-> "", away |-> {}, cleaning |-> 0]

\* The loop of matchRoute over the segment index i.
RECURSIVE RouteLoop(_, _, _, _)
\* (mutant of RouteLoop: the path segment is bound as it stands, without
\* decodeURIComponent)
RouteLoop_raw(patternParts, pathParts, i, params) ==
  IF i > Len(patternParts) THEN [kind |-> "params", params |-> params]
  ELSE IF StartsWithColon(patternParts[i])
       THEN RouteLoop(patternParts, pathParts, i + 1,
                      (Slice1(patternParts[i]) :> pathParts[i]) @@ params)
       ELSE IF patternParts[i] # pathParts[i] THEN MatchNull
            ELSE RouteLoop(patternParts, pathParts, i + 1, params)

RouteLoop(patternParts, pathParts, i, params) ==
  IF i > Len(patternParts) THEN [kind |-> "params", params |-> params]
  ELSE IF StartsWithColon(patternParts[i])
       THEN LET d == decodeURIComponent(pathParts[i])
            IN IF ~d.ok THEN MatchThrow
               ELSE RouteLoop(patternParts, pathParts, i + 1,
                              (Slice1(patternParts[i]) :> d.v) @@ params)
       ELSE IF patternParts[i] # pathParts[i] THEN MatchNull
            ELSE RouteLoop(patternParts, pathParts, i + 1, params)

matchRoute(pattern, path) ==
  LET patternParts == SplitPath(pattern)
      pathParts == SplitPath(path)
  IN IF Len(patternParts) # Len(pathParts) THEN MatchNull
     ELSE RouteLoop(patternParts, pathParts, 1, NoParams)

\* Map.prototype.set: a new key is appended, an existing key keeps its
\* position and gets the new value
\* (mutant of MapSet: an existing key is deleted and inserted again at the end)
MapSet_reinsert(entries, pattern, handler) ==
  Append(SelectSeq(entries, LAMBDA e : e.pattern # pattern),
         [pattern |-> pattern, handler |-> handler])

MapSet(entries, pattern, handler) ==
  IF \E i \in DOMAIN entries : entries[i].pattern = pattern
  THEN [i \in DOMAIN entries |->
          IF entries[i].pattern = pattern
          THEN [pattern |-> pattern, handler |-> handler] ELSE entries[i]]
  ELSE Append(entries, [pattern |-> pattern, handler |-> handler])

\* matchRoute on the patterns and locations of the model
RouteMatches ==
  [pattern \in RoutePatterns |-> [path \in Locations |-> matchRoute(pattern, path)]]

\* The 'for (const [pattern, handler] of routes)' loop of handleRoute:
\* the handler of the first entry whose pattern matches, "" if none does,
\* "throw" if matchRoute throws before that.
FirstMatch(entries, path) ==
  LET stops == {i \in DOMAIN entries : RouteMatches[entries[i].pattern][path].kind # "null"}
  IN IF stops = {} THEN ""
     ELSE LET first == CHOOSE i \in stops : \A j \in stops : i <= j
          IN IF RouteMatches[entries[first].pattern][path].kind = "throw"
             THEN "throw" ELSE entries[first].handler

\* handleRoute from 'Find matching route' on: the run either awaits the
\* handler it invoked or has returned.
\* (mutant of Dispatch: no '// No match - 404' part)
Dispatch_silent(run) ==
  IF FirstMatch(routes, run.path) \in {"", "throw"} THEN DoneRun
  ELSE [run EXCEPT !.pc = "handler", !.handler = FirstMatch(routes, run.path)]

Dispatch(run) ==
  LET h == FirstMatch(routes, run.path)
  IN IF h = "throw" THEN DoneRun
     ELSE IF h # "" THEN [run EXCEPT !.pc = "handler", !.handler = h]
     ELSE IF notFoundHandler # ""
     THEN [run EXCEPT !.pc = "handler", !.handler = notFoundHandler]
     ELSE DoneRun

\* What a route lookup did: the path it matched and the handler it invoked
\* ("" when it invoked none)
NoLookup == [path |-> << >>, handler |-> ""]
Looked(run) == [path |-> run.path, handler |-> Dispatch(run).handler]

\* handleRoute() is called: it reads the location, and invokes the pending
\* cleanup if there is one.  A cleanup that returns (a value or a promise)
\* is awaited; one that throws synchronously is logged and the function
\* goes straight on, as it does when no cleanup is pending.
handleRoute(path) ==
  /\ nruns < MaxNavs
  /\ nruns' = nruns + 1
  /\ LET run == [NoRun EXCEPT !.path = path, !.away = returned]
     IN IF currentCleanup # 0
        THEN /\ cleanupCalls' = [cleanupCalls EXCEPT ![currentCleanup] = @ + 1]
             /\ \/ /\ runs' = [runs EXCEPT ![nruns + 1] =
                                  [run EXCEPT !.pc = "cleanup", !.cleaning = currentCleanup]]
                   /\ currentCleanup' = currentCleanup
                   /\ UNCHANGED <<failed, lookup>>
                \/ /\ runs' = [runs EXCEPT ![nruns + 1] = Dispatch(run)]
                   /\ currentCleanup' = 0
                   /\ failed' = failed \cup {currentCleanup}
                   /\ lookup' = Looked(run)
        ELSE /\ cleanupCalls' = cleanupCalls
             /\ runs' = [runs EXCEPT ![nruns + 1] = Dispatch(run)]
             /\ currentCleanup' = currentCleanup
             /\ lookup' = Looked(run)
             /\ UNCHANGED failed
  /\ UNCHANGED <<returned, registered>>
  /\ UNCHANGED <<serverVars, matchVars, otherVars>>

\* route(pattern, handler)
Route(pattern, handler) ==
  /\ ~started /\ nruns = 0
  /\ Len(routes) < MaxRoutes \/ \E i \in 1..Len(routes) : routes[i].pattern = pattern
  /\ Len(registered) < MaxRegs
  /\ Len(registered) < Len(HandlerAt)
  /\ handler = HandlerAt[Len(registered) + 1]
  /\ routes' = MapSet(routes, pattern, handler)
  /\ registered' = Append(registered, [pattern |-> pattern, handler |-> handler])
  /\ UNCHANGED <<notFoundHandler, currentCleanup, pathname, started, runs, nruns,
                 cleanupCalls, returned, failed, lookup>>
  /\ UNCHANGED <<serverVars, matchVars, otherVars>>

\* notFound(handler)
NotFound(handler) ==
  /\ ~started /\ nruns = 0
  /\ notFoundHandler # handler
  /\ notFoundHandler' = handler
  /\ UNCHANGED <<routes, currentCleanup, pathname, started, runs, nruns,
                 cleanupCalls, returned, registered, failed, lookup>>
  /\ UNCHANGED <<serverVars, matchVars, otherVars>>

\* startRouter(): installs the listeners and handles the initial route
StartRouter ==
  /\ ~started
  /\ started' = TRUE
  /\ handleRoute(pathname)
  /\ UNCHANGED <<routes, notFoundHandler, pathname>>

\* navigate(path): pushState or replaceState, then handleRoute()
navigate(path) ==
  /\ handleRoute(path)
  /\ pathname' = path
  /\ UNCHANGED <<routes, notFoundHandler, started>>

\* A call of navigate from application code
Navigate(path) == navigate(path)

\* The popstate listener: the browser has moved to another history entry
Popstate(path) ==
  /\ started
  /\ handleRoute(path)
  /\ pathname' = path
  /\ UNCHANGED <<routes, notFoundHandler, started>>

\* The click listener of startRouter.  An anchor is its href attribute
\* (<< >> when it has none), its download and target attributes, and the
\* modifier keys of the mouse event.
h_hash == <<"#", "t", "o", "p">>
h_mailto == <<"m", "a", "i", "l", "t", "o", ":", "x">>
h_tel == <<"t", "e", "l", ":", "1">>
h_external == <<"h", "t", "t", "p", "s", ":", Slash, Slash, "x", Slash>>

Hrefs == Locations \cup {<< >>, h_hash, h_mailto, h_tel, h_external}

Links == [href : Hrefs, download : BOOLEAN, blank : BOOLEAN,
          metaKey : BOOLEAN, ctrlKey : BOOLEAN, shiftKey : BOOLEAN,
          altKey : BOOLEAN]

\* String.prototype.startsWith
StartsWith(str, prefix) ==
  Len(str) >= Len(prefix) /\ SubSeq(str, 1, Len(prefix)) = prefix

\* link.origin, as the browser resolves the href against the document:
\* "same" stands for window.location.origin
LinkOrigin(href) ==
  IF href = << >> THEN ""
  ELSE IF href[1] \in {Slash, "#"} THEN "same"
  ELSE IF StartsWith(href, SubSeq(h_mailto, 1, 7)) \/ StartsWith(href, SubSeq(h_tel, 1, 4))
  THEN "null"
  ELSE "other"

Intercepted(link) ==
  /\ link.href # << >>
  /\ ~(\/ LinkOrigin(link.href) # "same" \/ link.download \/ link.blank
       \/ link.metaKey \/ link.ctrlKey \/ link.shiftKey)
  /\ ~(\/ StartsWith(link.href, <<"#">>)
       \/ StartsWith(link.href, SubSeq(h_mailto, 1, 7))
       \/ StartsWith(link.href, SubSeq(h_tel, 1, 4)))

\* The listener on its own: preventDefault() and navigate(href), or a
\* return that leaves the click to the browser
ClickIdle ==
  /\ ckLink = [href |-> << >>, download |-> FALSE, blank |-> FALSE,
               metaKey |-> FALSE, ctrlKey |-> FALSE, shiftKey |-> FALSE,
               altKey |-> FALSE]
  /\ ckResult = "pending"

ClickListener ==
  /\ ckResult = "pending"
  /\ ckResult' = IF Intercepted(ckLink) THEN "navigate" ELSE "native"
  /\ UNCHANGED ckLink
  /\ UNCHANGED <<serverVars, matchVars, routerVars, disk, st, ac, libVars>>

Click ==
  /\ started
  /\ nruns < MaxNavs
  /\ \E link \in Links :
       /\ Intercepted(link)
       /\ navigate(link.href)

\* The awaited cleanup settles: its promise resolves, or it rejects, which
\* the catch logs.  Either way currentCleanup is cleared and the route
\* lookup runs.
CleanupOutcomes == {"resolve", "reject"}

\* (mutant of CleanupSettles: no try/catch around the awaited cleanup, a
\* rejection ends handleRoute)
CleanupSettles_nocatch(n, outcome) ==
  /\ runs[n].pc = "cleanup"
  /\ currentCleanup' = IF outcome = "reject" THEN currentCleanup ELSE 0
  /\ runs' = [runs EXCEPT ![n] = IF outcome = "reject" THEN DoneRun ELSE Dispatch(runs[n])]
  /\ failed' = IF outcome = "reject" THEN failed \cup {runs[n].cleaning} ELSE failed
  /\ lookup' = IF outcome = "reject" THEN lookup ELSE Looked(runs[n])
  /\ UNCHANGED <<routes, notFoundHandler, pathname, started, nruns,
                 cleanupCalls, returned, registered>>
  /\ UNCHANGED <<serverVars, matchVars, otherVars>>

CleanupSettles(n, outcome) ==
  /\ runs[n].pc = "cleanup"
  /\ currentCleanup' = 0
  /\ runs' = [runs EXCEPT ![n] = Dispatch(runs[n])]
  /\ failed' = IF outcome = "reject" THEN failed \cup {runs[n].cleaning} ELSE failed
  /\ lookup' = Looked(runs[n])
  /\ UNCHANGED <<routes, notFoundHandler, pathname, started, nruns,
                 cleanupCalls, returned, registered>>
  /\ UNCHANGED <<serverVars, matchVars, otherVars>>

\* The awaited handler settles: with a function, which becomes the current
\* cleanup; with anything else; or by throwing, which is logged.
HandlerSettles(n, result) ==
  /\ runs[n].pc = "handler"
  /\ runs' = [runs EXCEPT ![n] = DoneRun]
  /\ IF result = "function"
     THEN currentCleanup' = n /\ returned' = returned \cup {n}
     ELSE UNCHANGED <<currentCleanup, returned>>
  /\ UNCHANGED <<routes, notFoundHandler, pathname, started, nruns, cleanupCalls,
                 registered, failed, lookup>>
  /\ UNCHANGED <<serverVars, matchVars, otherVars>>

HandlerResults == {"function", "undefined", "throw"}

RouterIdle ==
  /\ routes = << >>
  /\ notFoundHandler = ""
  /\ currentCleanup = 0
  /\ pathname \in Locations
  /\ started = FALSE
  /\ runs = [n \in Navs |-> NoRun]
  /\ nruns = 0
  /\ cleanupCalls = [n \in Navs |-> 0]
  /\ returned = {}
  /\ registered = << >>
  /\ failed = {}
  /\ lookup = NoLookup

\* ------------------------------------------------------------------------
\* Static file server (server/routes/static.ts)
\* ------------------------------------------------------------------------
Dot == "."

f_index == <<Slash, "i", "n", "d", "e", "x", Dot, "h", "t", "m", "l">>
f_app == <<Slash, "a", "p", "p", Dot, "j", "s">>
f_data == <<Slash, "d", Dot, "x", "y", "z">>
f_gone_css == <<Slash, "g", Dot, "c", "s", "s">>
f_gone_xyz == <<Slash, "g", Dot, "x", "y", "z">>
f_hidden == <<Slash, Dot, "e", "n", "v">>
d_lib == <<Slash, "l", "i", "b">>

\* The characters of a segment as one string
RECURSIVE Str(_)
Str(seq) == IF seq = << >> THEN "" ELSE seq[1] \o Str(Tail(seq))

\* MIME_TYPES
MIME_TYPES ==
  [ext \in {".html", ".css", ".js", ".mjs", ".ts", ".json", ".svg", ".png", ".jpg",
            ".jpeg", ".gif", ".webp", ".ico", ".woff", ".woff2", ".ttf", ".otf",
            ".eot", ".map"} |->
     CASE ext = ".html" -> "text/html; charset=utf-8"
       [] ext = ".css" -> "text/css; charset=utf-8"
       [] ext \in {".js", ".mjs", ".ts"} -> "text/javascript; charset=utf-8"
       [] ext = ".json" -> "application/json; charset=utf-8"
       [] ext = ".svg" -> "image/svg+xml"
       [] ext = ".png" -> "image/png"
       [] ext \in {".jpg", ".jpeg"} -> "image/jpeg"
       [] ext = ".gif" -> "image/gif"
       [] ext = ".webp" -> "image/webp"
       [] ext = ".ico" -> "image/x-icon"
       [] ext = ".woff" -> "font/woff"
       [] ext = ".woff2" -> "font/woff2"
       [] ext = ".ttf" -> "font/ttf"
       [] ext = ".otf" -> "font/otf"
       [] ext = ".eot" -> "application/vnd.ms-fontobject"
       [] ext = ".map" -> "application/json"]

\* path.extname: from the last '.' of the last path segment to the end; ''
\* when there is none or when it is the first character of the segment
extname(path) ==
  LET slashes == {i \in DOMAIN path : path[i] = Slash}
      start == IF slashes = {} THEN 1
               ELSE 1 + CHOOSE i \in slashes : \A j \in slashes : j <= i
      dots == {i \in start..Len(path) : path[i] = Dot}
  IN IF dots = {} THEN ""
     ELSE IF (CHOOSE i \in dots : \A j \in dots : j <= i) = start THEN ""
     ELSE Str(SubSeq(path, CHOOSE i \in dots : \A j \in dots : j <= i, Len(path)))

\* The request paths, and the trees the client directory may hold
StaticPaths == {p_root, f_index, f_app, f_data, f_gone_css, f_gone_xyz, f_hidden,
                d_lib, p_settings}

StaticTrees ==
  {t \in [files : SUBSET {f_index, f_app, f_data, d_lib \o f_index},
          dirs : SUBSET {d_lib}] :
     (d_lib \o f_index) \in t.files => d_lib \in t.dirs}

NoResponse == [status |-> 0, type |-> "", body |-> << >>]

StaticIdle ==
  st = [pc |-> "idle", path |-> p_root, tree |-> [files |-> {}, dirs |-> {}],
        filePath |-> << >>, resp |-> NoResponse]

\* res.writeHead(404, text/plain); res.end('Not found')
StaticNotFound == [status |-> 404, type |-> "text/plain", body |-> <<"Not found">>]

\* (mutant of FallsBack: only paths without an extension fall back)
FallsBack_noext(ext) == ext = ""

\* '!ext || !MIME_TYPES[ext]' of the catch block of serveStatic
FallsBack(ext) == ext = "" \/ ext \notin DOMAIN MIME_TYPES

\* serveStatic up to 'await stat(filePath)'
ServeStatic ==
  /\ st.pc = "request"
  /\ st' = [st EXCEPT !.pc = "stat",
                      !.filePath = IF st.path = p_root THEN f_index ELSE st.path]
  /\ UNCHANGED <<serverVars, matchVars, routerVars, disk, clickVars, ac, libVars>>

\* stat settles: a directory is replaced by its index.html; a path that
\* does not exist falls back to the entry document or is answered 404
StatSettles ==
  /\ st.pc = "stat"
  /\ st' =
       IF st.filePath \in st.tree.dirs
       THEN [st EXCEPT !.pc = "readFile", !.filePath = st.filePath \o f_index]
       ELSE IF st.filePath \in st.tree.files
       THEN [st EXCEPT !.pc = "readFile"]
       ELSE IF FallsBack(extname(IF st.path = p_root THEN f_index ELSE st.path))
       THEN [st EXCEPT !.pc = "readFile", !.filePath = f_index]
       ELSE [st EXCEPT !.pc = "done", !.resp = StaticNotFound]
  /\ UNCHANGED <<serverVars, matchVars, routerVars, disk, clickVars, ac, libVars>>

\* readFile settles: the content with the type of the file's extension, or
\* 404 when the file cannot be read
ReadFileSettles ==
  /\ st.pc = "readFile"
  /\ st' = [st EXCEPT !.pc = "done",
              !.resp = IF st.filePath \in st.tree.files
                       THEN [status |-> 200,
                             type |-> IF extname(st.filePath) \in DOMAIN MIME_TYPES
                                      THEN MIME_TYPES[extname(st.filePath)]
                                      ELSE "application/octet-stream",
                             body |-> st.filePath]
                       ELSE StaticNotFound]
  /\ UNCHANGED <<serverVars, matchVars, routerVars, disk, clickVars, ac, libVars>>

\* ------------------------------------------------------------------------
\* API client (client/lib/api.js)
\* ------------------------------------------------------------------------
\* options.body: absent (or falsy), a value JSON.stringify serializes, or
\* one on which it throws (a circular structure, a BigInt)
ApiBodies == {"none", "object", "unserializable"}

\* What fetch does: it rejects, or it resolves with a response of some
\* status and content type whose body is or is not JSON text
NetworkFailure == [kind |-> "reject", status |-> 0, type |-> "", valid |-> FALSE]

ApiResponses ==
  [kind : {"response"}, status : {200, 204, 404, 500},
   type : {"application/json", "text/html", ""}, valid : BOOLEAN]

NoOutcome == [kind |-> "pending", ok |-> FALSE, status |-> 0, data |-> ""]

ApiIdle ==
  ac = [pc |-> "idle", body |-> "none", net |-> NetworkFailure, fetches |-> 0,
        out |-> NoOutcome]

Resolved(response, data) ==
  [kind |-> "resolved", ok |-> response.status \in 200..299,
   status |-> response.status, data |-> data]

\* api() up to 'await fetch(endpoint, fetchOptions)'; JSON.stringify(body)
\* is outside the try block
ApiCall ==
  /\ ac.pc = "call"
  /\ ac' = IF ac.body = "unserializable"
           THEN [ac EXCEPT !.pc = "done",
                           !.out = [NoOutcome EXCEPT !.kind = "rejected"]]
           ELSE [ac EXCEPT !.pc = "fetch", !.fetches = @ + 1]
  /\ UNCHANGED <<serverVars, matchVars, routerVars, disk, clickVars, st, libVars>>

\* (mutant of FetchSettles: a rejected fetch is tried once more)
FetchSettles_retry ==
  /\ ac.pc = "fetch"
  /\ ac' = IF ac.net.kind = "reject" /\ ac.fetches < 2
           THEN [ac EXCEPT !.fetches = @ + 1]
           ELSE IF ac.net.kind = "reject"
           THEN [ac EXCEPT !.pc = "done",
                   !.out = [kind |-> "resolved", ok |-> FALSE, status |-> 0,
                            data |-> "{error: 'Network error'}"]]
           ELSE IF ac.net.type = "application/json"
           THEN [ac EXCEPT !.pc = "json"]
           ELSE [ac EXCEPT !.pc = "done", !.out = Resolved(ac.net, "null")]
  /\ UNCHANGED <<serverVars, matchVars, routerVars, disk, clickVars, st, libVars>>

\* fetch settles: a rejection is caught and becomes the 'Network error'
\* object; a JSON response is parsed, any other yields data = null
FetchSettles ==
  /\ ac.pc = "fetch"
  /\ ac' = IF ac.net.kind = "reject"
           THEN [ac EXCEPT !.pc = "done",
                   !.out = [kind |-> "resolved", ok |-> FALSE, status |-> 0,
                            data |-> "{error: 'Network error'}"]]
           ELSE IF ac.net.type = "application/json"
           THEN [ac EXCEPT !.pc = "json"]
           ELSE [ac EXCEPT !.pc = "done", !.out = Resolved(ac.net, "null")]
  /\ UNCHANGED <<serverVars, matchVars, routerVars, disk, clickVars, st, libVars>>

\* response.json() settles; its rejection is swallowed
JsonSettles ==
  /\ ac.pc = "json"
  /\ ac' = [ac EXCEPT !.pc = "done",
              !.out = Resolved(ac.net, IF ac.net.valid THEN "parsed" ELSE "null")]
  /\ UNCHANGED <<serverVars, matchVars, routerVars, disk, clickVars, st, libVars>>

\* ------------------------------------------------------------------------
\* Atomic JSON files (server/utils/fs.ts)
\* ------------------------------------------------------------------------
\* Everything but the variables of the file utilities
exceptFs == <<appVars, ts, ld, db>>

Writers == 1..MaxWriters
Readers == 1..MaxReaders
TempNames == 1..MaxWrites

\* The data handed to writeJsonFileAtomic, and the content the file has
\* before the first call
Datas == {"a", "b"}
OldData == "old"

NoFile == [kind |-> "absent", data |-> ""]
EmptyFile == [kind |-> "partial", data |-> ""]
JsonFile(data) == [kind |-> "json", data |-> data]

IdleWriter == [pc |-> "idle", data |-> "", temp |-> 0, ret |-> ""]
IdleReader == [pc |-> "idle", got |-> NoFile, ret |-> ""]

AtomicIdle ==
  fsys = [target |-> NoFile, temps |-> [t \in TempNames |-> NoFile],
          calls |-> 0, uuids |-> 0, wrote |-> {},
          w |-> [i \in Writers |-> IdleWriter],
          r |-> [i \in Readers |-> IdleReader]]

\* `${path}.${randomUUID()}.tmp`, named by the identifier
\* (mutant of tempPath: one temp name for all calls)
tempPath_fixed(uuid) == 1

tempPath(uuid) == uuid

\* writeJsonFileAtomic(path, data) is called and awaits mkdir
WriteJsonFileAtomic(i, data) ==
  /\ fsys.w[i].pc = "idle"
  /\ fsys.calls < MaxWrites
  /\ fsys' = [fsys EXCEPT !.calls = @ + 1,
                          !.w[i] = [IdleWriter EXCEPT !.pc = "mkdir", !.data = data]]
  /\ UNCHANGED exceptFs

\* mkdir settles; the temp path is built and writeFile opens it (creating
\* or truncating the file)
MkdirSettles(i) ==
  /\ fsys.w[i].pc = "mkdir"
  /\ fsys' = [fsys EXCEPT !.uuids = @ + 1,
                          !.temps[tempPath(fsys.uuids + 1)] = EmptyFile,
                          !.w[i].temp = tempPath(fsys.uuids + 1),
                          !.w[i].pc = "write"]
  /\ UNCHANGED exceptFs

\* writeFile writes the serialized data to the temp file and settles;
\* rename is called
TempWritten(i) ==
  /\ fsys.w[i].pc = "write"
  /\ fsys' = [fsys EXCEPT !.temps[fsys.w[i].temp] =
                            IF @.kind = "absent" THEN @ ELSE JsonFile(fsys.w[i].data),
                          !.w[i].pc = "rename"]
  /\ UNCHANGED exceptFs

\* rename(tempPath, path): the file at the path becomes the temp file, in
\* one step; ENOENT when the temp file is gone
RenameSettles(i) ==
  /\ fsys.w[i].pc = "rename"
  /\ fsys' = IF fsys.temps[fsys.w[i].temp].kind = "absent"
             THEN [fsys EXCEPT !.w[i].pc = "done", !.w[i].ret = "throw"]
             ELSE [fsys EXCEPT !.target = fsys.temps[fsys.w[i].temp],
                               !.temps[fsys.w[i].temp] = NoFile,
                               !.wrote = @ \cup {fsys.w[i].data},
                               !.w[i].pc = "done", !.w[i].ret = "undefined"]
  /\ UNCHANGED exceptFs

\* The caller has the result of writeJsonFileAtomic
WriterReturns(i) ==
  /\ fsys.w[i].pc = "done"
  /\ fsys' = [fsys EXCEPT !.w[i] = IdleWriter]
  /\ UNCHANGED exceptFs

\* readJsonFile(path) is called: readFile opens the file the path names at
\* this moment, or fails with ENOENT
ReadJsonFile(i) ==
  /\ fsys.r[i].pc = "idle"
  /\ fsys' = [fsys EXCEPT !.r[i] = [pc |-> "read", got |-> fsys.target, ret |-> ""]]
  /\ UNCHANGED exceptFs

\* JSON.parse of text that is not a complete document throws
JSONparse(content) == IF content.kind = "json" THEN content.data ELSE "throw"

\* readFile settles: null for ENOENT, else JSON.parse of the content
ReadSettles(i) ==
  /\ fsys.r[i].pc = "read"
  /\ fsys' = [fsys EXCEPT !.r[i].pc = "done",
                          !.r[i].ret = IF fsys.r[i].got.kind = "absent" THEN "null"
                                       ELSE JSONparse(fsys.r[i].got)]
  /\ UNCHANGED exceptFs

\* The caller has the result of readJsonFile
ReaderReturns(i) ==
  /\ fsys.r[i].pc = "done"
  /\ fsys' = [fsys EXCEPT !.r[i] = IdleReader]
  /\ UNCHANGED exceptFs

\* ------------------------------------------------------------------------
\* Toast notifications (client/lib/toast.js)
\* ------------------------------------------------------------------------
exceptToast == <<appVars, fsys, ld, db>>

MAX_TOASTS == 6

\* The ids callers pass in options.id; "" stands for no id
ToastIds == {"x"}

\* `toast-${Date.now()}-${Math.random()...}`: an id of its own for every
\* element created without one
AutoId == <<"toast-1", "toast-2", "toast-3", "toast-4", "toast-5", "toast-6",
            "toast-7", "toast-8", "toast-9", "toast-10">>

Alerts == 1..MaxToasts

\* An sl-alert element: its dataset.toastId and whether it is not created
\* yet, open, closing (hide() was called on it, by this module, by its
\* duration timer or by its close button), or removed after 'sl-after-hide'
NoAlert == [toastId |-> "", state |-> "none"]

ToastIdle ==
  ts = [alerts |-> [e \in Alerts |-> NoAlert], created |-> 0, activeToasts |-> << >>]

\* Map.prototype.has, get, delete and set on the entries in insertion order
MapHas(entries, key) == \E i \in DOMAIN entries : entries[i].key = key
MapGet(entries, key) == entries[CHOOSE i \in DOMAIN entries : entries[i].key = key].value
MapDelete(entries, key) == SelectSeq(entries, LAMBDA entry : entry.key # key)
MapPut(entries, key, value) ==
  IF MapHas(entries, key)
  THEN [i \in DOMAIN entries |->
          IF entries[i].key = key THEN [key |-> key, value |-> value] ELSE entries[i]]
  ELSE Append(entries, [key |-> key, value |-> value])

\* alert.hide(): an open alert starts closing, any other stays as it is
hide(alerts, e) ==
  IF alerts[e].state = "open" THEN [alerts EXCEPT ![e].state = "closing"] ELSE alerts

\* hide() on every element of a set
RECURSIVE hideAll(_, _)
hideAll(alerts, es) ==
  IF es = {} THEN alerts
  ELSE LET e == CHOOSE x \in es : TRUE
       IN hideAll(hide(alerts, e), es \ {e})

\* toast(): 'If ID provided and toast with same ID exists, remove it first'
Deduplicated(t, id) ==
  IF id # "" /\ MapHas(t.activeToasts, id)
  THEN [t EXCEPT !.alerts = hide(t.alerts, MapGet(t.activeToasts, id)),
                 !.activeToasts = MapDelete(t.activeToasts, id)]
  ELSE t

\* toast(): 'Limit concurrent toasts (remove oldest if at max)'
Limited(t) ==
  IF Len(t.activeToasts) >= MAX_TOASTS
  THEN [t EXCEPT !.alerts = hide(t.alerts, t.activeToasts[1].value),
                 !.activeToasts = MapDelete(t.activeToasts, t.activeToasts[1].key)]
  ELSE t

\* toast(): the element is created, tracked under its id and shown
Shown(t, id) ==
  LET e == t.created + 1
      toastId == IF id # "" THEN id ELSE AutoId[e]
  IN [alerts |-> [t.alerts EXCEPT ![e] = [toastId |-> toastId, state |-> "open"]],
      created |-> e,
      activeToasts |-> MapPut(t.activeToasts, toastId, e)]

\* toast(message, options)
Toast(id) ==
  /\ ts.created < MaxToasts
  /\ ts' = Shown(Limited(Deduplicated(ts, id)), id)
  /\ UNCHANGED exceptToast

\* dismiss(id)
Dismiss(id) ==
  /\ MapHas(ts.activeToasts, id)
  /\ ts' = [ts EXCEPT !.alerts = hide(ts.alerts, MapGet(ts.activeToasts, id)),
                      !.activeToasts = MapDelete(ts.activeToasts, id)]
  /\ UNCHANGED exceptToast

\* dismissAll()
DismissAll ==
  /\ ts.activeToasts # << >>
  /\ ts' = [ts EXCEPT !.alerts = hideAll(ts.alerts,
                                   {ts.activeToasts[i].value : i \in DOMAIN ts.activeToasts}),
                      !.activeToasts = << >>]
  /\ UNCHANGED exceptToast

\* The alert's duration has passed: the element hides itself.  All alerts
\* have the same duration here, so they close in the order of their creation.
AlertCloses(e) ==
  /\ ts.alerts[e].state = "open"
  /\ \A f \in 1..(e - 1) : ts.alerts[f].state # "open"
  /\ ts' = [ts EXCEPT !.alerts = hide(ts.alerts, e)]
  /\ UNCHANGED exceptToast

\* 'sl-after-hide' on a closing alert: the listener toast() added deletes
\* the Map entry of the alert's id and removes the element
AfterHide(e) ==
  /\ ts.alerts[e].state = "closing"
  /\ ts' = [ts EXCEPT !.alerts[e].state = "removed",
                      !.activeToasts = MapDelete(ts.activeToasts, ts.alerts[e].toastId)]
  /\ UNCHANGED exceptToast

\* ------------------------------------------------------------------------
\* Loading overlay (client/lib/components.js)
\* ------------------------------------------------------------------------
exceptLoading == <<appVars, fsys, ts, db>>

Loads == 1..MaxLoads

\* overlayEl is 0 for null, else the number of the element; overlays are
\* the '.vk-loading-overlay' elements in the document
LoadingIdle ==
  ld = [overlayEl |-> 0, overlays |-> {}, created |-> 0,
        calls |-> [i \in Loads |-> "idle"]]

\* hideLoading()
hideLoading(l) ==
  IF l.overlayEl # 0
  THEN [l EXCEPT !.overlays = @ \ {l.overlayEl}, !.overlayEl = 0]
  ELSE l

\* showLoading(message)
showLoading(l) ==
  [hideLoading(l) EXCEPT !.overlayEl = l.created + 1,
                         !.overlays = @ \cup {l.created + 1},
                         !.created = @ + 1]

\* withLoading(promise): the overlay is shown and the promise awaited
WithLoading(i) ==
  /\ ld.calls[i] = "idle"
  /\ ld.created < MaxOverlays
  /\ ld' = [showLoading(ld) EXCEPT !.calls[i] = "promise"]
  /\ UNCHANGED exceptLoading

\* withLoadingProgress(fn): the overlay is shown and fn is called; fn
\* returns a promise, which is awaited, or throws, and the finally block
\* hides the overlay at once
WithLoadingProgress(i, threw) ==
  /\ ld.calls[i] = "idle"
  /\ ld.created < MaxOverlays
  /\ ld' = IF threw THEN [hideLoading(showLoading(ld)) EXCEPT !.calls[i] = "rejected"]
           ELSE [showLoading(ld) EXCEPT !.calls[i] = "fn"]
  /\ UNCHANGED exceptLoading

\* The awaited promise settles: the finally block calls hide(), and the
\* promise of the call settles the same way
LoadingSettles(i, outcome) ==
  /\ ld.calls[i] \in {"promise", "fn"}
  /\ ld' = [hideLoading(ld) EXCEPT !.calls[i] = outcome]
  /\ UNCHANGED exceptLoading

\* The caller has the result
LoadingReturns(i) ==
  /\ ld.calls[i] \in {"resolved", "rejected"}
  /\ ld' = [ld EXCEPT !.calls[i] = "idle"]
  /\ UNCHANGED exceptLoading

\* ------------------------------------------------------------------------
\* debounce (client/lib/file-upload.js)
\* ------------------------------------------------------------------------
exceptDebounce == <<appVars, fsys, ts, ld>>

\* The k-th call of the debounced function passes the argument k; 0 stands
\* for null in timeoutId and lastArgs.  History: calls counts the calls,
\* invoked lists the arguments fn was invoked with, owed is the argument of
\* the latest call as long as it was neither followed by cancel() nor by an
\* invocation of fn with its argument or a later one, op is the latest
\* operation, typeErrors counts the timer callbacks that threw on
\* 'fn(...lastArgs)' with lastArgs null.
DebounceIdle ==
  db = [timeoutId |-> 0, lastArgs |-> 0, timers |-> {}, nextTimer |-> 1,
        running |-> FALSE, calls |-> 0, invoked |-> << >>, owed |-> 0,
        op |-> "", typeErrors |-> 0]

\* debounced(...args), from outside fn or from inside it
debounced(d, args) ==
  [d EXCEPT !.lastArgs = args,
            !.timers = (@ \ {d.timeoutId}) \cup {d.nextTimer},
            !.timeoutId = d.nextTimer,
            !.nextTimer = @ + 1,
            !.calls = args,
            !.owed = args]

\* fn(...lastArgs) is entered
Invoked(d) ==
  [d EXCEPT !.running = TRUE,
            !.invoked = Append(@, d.lastArgs),
            !.owed = IF d.lastArgs >= @ THEN 0 ELSE @]

\* A call of the debounced function by the application
Debounced ==
  /\ ~db.running
  /\ db.calls < MaxCalls
  /\ db' = [debounced(db, db.calls + 1) EXCEPT !.op = "call"]
  /\ UNCHANGED exceptDebounce

\* A call of the debounced function made by fn while it runs
DebouncedInsideFn ==
  /\ db.running
  /\ db.calls < MaxCalls
  /\ db' = debounced(db, db.calls + 1)
  /\ UNCHANGED exceptDebounce

\* The timer expires: timeoutId is cleared and fn is called with lastArgs;
\* spreading null throws a TypeError before fn is entered
TimerExpires(t) ==
  /\ ~db.running
  /\ t \in db.timers
  /\ db' = IF db.lastArgs = 0
           THEN [db EXCEPT !.timers = @ \ {t}, !.timeoutId = 0, !.op = "timer",
                           !.typeErrors = @ + 1]
           ELSE [Invoked([db EXCEPT !.timers = @ \ {t}, !.timeoutId = 0])
                   EXCEPT !.op = "timer"]
  /\ UNCHANGED exceptDebounce

\* debounced.flush()
Flush ==
  /\ ~db.running
  /\ db' = IF db.timeoutId # 0 /\ db.lastArgs # 0
           THEN [Invoked([db EXCEPT !.timers = @ \ {db.timeoutId}, !.timeoutId = 0])
                   EXCEPT !.op = "flush"]
           ELSE [db EXCEPT !.op = "flush"]
  /\ UNCHANGED exceptDebounce

\* debounced.cancel()
Cancel ==
  /\ ~db.running
  /\ db' = IF db.timeoutId # 0
           THEN [db EXCEPT !.timers = @ \ {db.timeoutId}, !.timeoutId = 0,
                           !.lastArgs = 0, !.owed = 0, !.op = "cancel"]
           ELSE [db EXCEPT !.owed = 0, !.op = "cancel"]
  /\ UNCHANGED exceptDebounce

\* fn returns to the timer callback or to flush, which sets lastArgs to
\* null; or fn throws, and that statement is not reached
FnSettles(threw) ==
  /\ db.running
  /\ db' = [db EXCEPT !.running = FALSE,
                      !.lastArgs = IF threw THEN @ ELSE 0]
  /\ UNCHANGED exceptDebounce

LibIdle ==
  /\ AtomicIdle
  /\ ToastIdle
  /\ LoadingIdle
  /\ DebounceIdle

ServerSide ==
  /\ disk = "ok"
  /\ LibIdle
  /\ file = AbsentFile
  /\ clock = 0
  /\ uuids = 0
  /\ conn = [r \in Conns |-> IdleConn]
  /\ hist = InitHistory

ServerIdle ==
  /\ disk = "ok"
  /\ LibIdle
  /\ ClickIdle
  /\ StaticIdle
  /\ ApiIdle
  /\ file = AbsentFile
  /\ clock = 0
  /\ uuids = 0
  /\ conn = [r \in Conns |-> IdleConn]
  /\ hist = InitHistory

\* ------------------------------------------------------------------------
\* Specifications
\* ------------------------------------------------------------------------
AllIdle == \A q \in Conns : conn[q].pc = "idle"

\* The requests whose body handleItems reads; the others carry none
ReadsBody(m, p) ==
  \/ m = "POST" /\ p = p_api_items
  \/ m = "PUT" /\ matchPath(p_api_items_id, p).kind = "params"

\* One client issuing requests one after another
Request ==
  /\ AllIdle
  /\ \E m \in Methods, p \in ApiPaths :
       \E b \in (IF ReadsBody(m, p) THEN Bodies ELSE {EmptyBody}) :
         StartRequest(1, m, p, b)

\* Storage functions called one after another
Call ==
  /\ AllIdle
  /\ \E op \in StorageOps, id \in CallIds, data \in CallData :
       StartCall(1, op, id, data)

Init ==
  /\ file \in {AbsentFile, PartialFile, JSONstringify(<< >>)}
  /\ LibIdle
  /\ clock = 0
  /\ uuids = 0
  /\ conn = [r \in Conns |-> IdleConn]
  /\ hist = InitHistory
  /\ disk = "ok"
  /\ ClickIdle
  /\ StaticIdle
  /\ ApiIdle
  /\ MatchIdle
  /\ RouterIdle
  /\ pathname = p_root

Next ==
  \/ Request
  \/ Call
  \/ \E r \in Conns : ListItemsRead(r)
  \/ \E r \in Conns : GetItemRead(r)
  \/ \E r \in Conns : JsonBody(r)
  \/ \E r \in Conns : CreateItemRead(r)
  \/ \E r \in Conns : UpdateItemRead(r)
  \/ \E r \in Conns : DeleteItemRead(r)
  \/ \E r \in Conns : WriteOpen(r)
  \/ \E r \in Conns : WriteData(r)
  \/ \E r \in Conns : Release(r)
  \/ Tick

Spec == Init /\ [][Next]_vars

\* The same client and the same server on a data directory whose system
\* calls may fail
Disks == {"ok", "readfail", "writefail", "full"}

InitIO ==
  /\ file \in {AbsentFile, JSONstringify(<< >>)}
  /\ LibIdle
  /\ clock = 0
  /\ uuids = 0
  /\ conn = [r \in Conns |-> IdleConn]
  /\ hist = InitHistory
  /\ disk \in Disks
  /\ ClickIdle
  /\ StaticIdle
  /\ ApiIdle
  /\ MatchIdle
  /\ RouterIdle
  /\ pathname = p_root

SpecIO == InitIO /\ [][Next]_vars

\* Several clients whose requests the server handles concurrently
ConcMethods == {"GET", "POST", "PUT", "DELETE"}
ConcPaths == {p_api_items, p_api_items \o <<Slash>> \o randomUUID(1)}
ConcBodies == {ObjectBody(JsString(<<"a">>), Undefined)}

ConcurrentRequest ==
  \E r \in Conns, m \in ConcMethods, p \in ConcPaths :
    \E b \in (IF ReadsBody(m, p) THEN ConcBodies ELSE {EmptyBody}) :
      StartRequest(r, m, p, b)

InitConc ==
  /\ file \in {AbsentFile, JSONstringify(<< >>)}
  /\ LibIdle
  /\ clock = 0
  /\ uuids = 0
  /\ conn = [r \in Conns |-> IdleConn]
  /\ hist = InitHistory
  /\ disk = "ok"
  /\ ClickIdle
  /\ StaticIdle
  /\ ApiIdle
  /\ MatchIdle
  /\ RouterIdle
  /\ pathname = p_root

NextConc ==
  \/ ConcurrentRequest
  \/ \E r \in Conns : ListItemsRead(r)
  \/ \E r \in Conns : GetItemRead(r)
  \/ \E r \in Conns : JsonBody(r)
  \/ \E r \in Conns : CreateItemRead(r)
  \/ \E r \in Conns : UpdateItemRead(r)
  \/ \E r \in Conns : DeleteItemRead(r)
  \/ \E r \in Conns : WriteOpen(r)
  \/ \E r \in Conns : WriteData(r)
  \/ \E r \in Conns : Release(r)
  \/ Tick

SpecConc == InitConc /\ [][NextConc]_vars

\* The click listener applied to every anchor and event of Links
InitClick ==
  /\ disk = "ok"
  /\ LibIdle
  /\ file = AbsentFile
  /\ clock = 0
  /\ uuids = 0
  /\ conn = [r \in Conns |-> IdleConn]
  /\ hist = InitHistory
  /\ MatchIdle
  /\ RouterIdle
  /\ pathname = p_root
  /\ ckLink \in Links
  /\ ckResult = "pending"
  /\ StaticIdle
  /\ ApiIdle

SpecClick == InitClick /\ [][ClickListener]_vars

\* serveStatic on every request path and every tree of the client directory
InitStatic ==
  /\ ServerSide
  /\ MatchIdle
  /\ RouterIdle
  /\ ClickIdle
  /\ ApiIdle
  /\ pathname = p_root
  /\ \E path \in StaticPaths, tree \in StaticTrees :
       st = [pc |-> "request", path |-> path, tree |-> tree,
             filePath |-> << >>, resp |-> NoResponse]

NextStatic ==
  \/ ServeStatic
  \/ StatSettles
  \/ ReadFileSettles

SpecStatic == InitStatic /\ [][NextStatic]_vars

\* api() with every body option against everything the network may do
InitApi ==
  /\ ServerSide
  /\ MatchIdle
  /\ RouterIdle
  /\ ClickIdle
  /\ StaticIdle
  /\ pathname = p_root
  /\ \E body \in ApiBodies, net \in {NetworkFailure} \cup ApiResponses :
       ac = [pc |-> "call", body |-> body, net |-> net, fetches |-> 0,
             out |-> NoOutcome]

NextApi ==
  \/ ApiCall
  \/ FetchSettles
  \/ JsonSettles

SpecApi == InitApi /\ [][NextApi]_vars

\* Nothing has happened outside the library modules
AppIdle ==
  /\ disk = "ok"
  /\ file = AbsentFile
  /\ clock = 0
  /\ uuids = 0
  /\ conn = [r \in Conns |-> IdleConn]
  /\ hist = InitHistory
  /\ MatchIdle
  /\ RouterIdle
  /\ ClickIdle
  /\ StaticIdle
  /\ ApiIdle
  /\ pathname = p_root

\* Overlapping calls of writeJsonFileAtomic and readJsonFile on one path,
\* which is absent or holds a complete document at the start
InitAtomic ==
  /\ AppIdle
  /\ ToastIdle
  /\ LoadingIdle
  /\ DebounceIdle
  /\ \E content \in {NoFile, JsonFile(OldData)} :
       fsys = [target |-> content, temps |-> [t \in TempNames |-> NoFile],
               calls |-> 0, uuids |-> 0, wrote |-> {},
               w |-> [i \in Writers |-> IdleWriter],
               r |-> [i \in Readers |-> IdleReader]]

NextAtomic ==
  \/ \E i \in Writers, data \in Datas : WriteJsonFileAtomic(i, data)
  \/ \E i \in Writers : MkdirSettles(i)
  \/ \E i \in Writers : TempWritten(i)
  \/ \E i \in Writers : RenameSettles(i)
  \/ \E i \in Writers : WriterReturns(i)
  \/ \E i \in Readers : ReadJsonFile(i)
  \/ \E i \in Readers : ReadSettles(i)
  \/ \E i \in Readers : ReaderReturns(i)

SpecAtomic == InitAtomic /\ [][NextAtomic]_vars

\* The toast module driven by its callers and by the alerts' events
InitToast ==
  /\ AppIdle
  /\ AtomicIdle
  /\ ToastIdle
  /\ LoadingIdle
  /\ DebounceIdle

NextToast ==
  \/ \E id \in ToastIds \cup {""} : Toast(id)
  \/ \E id \in ToastIds : Dismiss(id)
  \/ DismissAll
  \/ \E e \in Alerts : AlertCloses(e)
  \/ \E e \in Alerts : AfterHide(e)

SpecToast == InitToast /\ [][NextToast]_vars

\* Overlapping calls of withLoading and withLoadingProgress
InitLoading ==
  /\ AppIdle
  /\ AtomicIdle
  /\ ToastIdle
  /\ LoadingIdle
  /\ DebounceIdle

NextLoading ==
  \/ \E i \in Loads : WithLoading(i)
  \/ \E i \in Loads, threw \in BOOLEAN : WithLoadingProgress(i, threw)
  \/ \E i \in Loads, outcome \in {"resolved", "rejected"} : LoadingSettles(i, outcome)
  \/ \E i \in Loads : LoadingReturns(i)

SpecLoading == InitLoading /\ [][NextLoading]_vars

\* A debounced function driven by its callers, by fn and by the timers
InitDebounce ==
  /\ AppIdle
  /\ AtomicIdle
  /\ ToastIdle
  /\ LoadingIdle
  /\ DebounceIdle

NextDebounce ==
  \/ Debounced
  \/ DebouncedInsideFn
  \/ \E t \in 1..MaxCalls : TimerExpires(t)
  \/ Flush
  \/ Cancel
  \/ \E threw \in BOOLEAN : FnSettles(threw)

SpecDebounce == InitDebounce /\ [][NextDebounce]_vars

\* The same with the event loop's guarantees: a timer that is set expires,
\* and fn, once entered, returns or throws
SpecDebounceLive ==
  /\ SpecDebounce
  /\ WF_vars(\E t \in 1..MaxCalls : TimerExpires(t))
  /\ WF_vars(\E threw \in BOOLEAN : FnSettles(threw))

\* matchPath applied to every pattern and path of the bounded input sets
InitMatch ==
  /\ ServerIdle
  /\ RouterIdle
  /\ pathname = p_root
  /\ mpPattern \in SeqsUpTo(PatternSegs, MaxPatSegs)
  /\ mpPath \in SeqsUpTo(PathSegs, MaxPathSegs)
  /\ mpTrailing \in BOOLEAN
  /\ mpResult = MatchPending
  /\ mrResult = MatchPending

\* The client's matchRoute is called on the same pattern and path
CallMatchRoute ==
  /\ mrResult = MatchPending
  /\ mrResult' = matchRoute(PatternString(mpPattern), PathString(mpPath, mpTrailing))
  /\ UNCHANGED <<mpPattern, mpPath, mpTrailing, mpResult>>
  /\ UNCHANGED <<serverVars, routerVars, otherVars>>

NextMatch ==
  \/ CallMatchPath
  \/ CallMatchRoute

SpecMatch == InitMatch /\ [][NextMatch]_vars

\* The client router driven by registrations, navigations and settling
\* cleanups and handlers
InitRouter ==
  /\ ServerIdle
  /\ MatchIdle
  /\ RouterIdle

NextRouter ==
  \/ \E pattern \in RoutePatterns, handler \in RouteHandlers : Route(pattern, handler)
  \/ \E handler \in {"render404"} : NotFound(handler)
  \/ StartRouter
  \/ \E path \in Locations : Navigate(path)
  \/ \E path \in Locations : Popstate(path)
  \/ Click
  \/ \E n \in Navs, outcome \in CleanupOutcomes : CleanupSettles(n, outcome)
  \/ \E n \in Navs, result \in HandlerResults : HandlerSettles(n, result)

SpecRouter == InitRouter /\ [][NextRouter]_vars


\* ------------------------------------------------------------------------
\* Properties of the storage functions and the items API
\* ------------------------------------------------------------------------
\* The collection a file content stands for (an absent or empty file is
\* the empty collection)
Collection(f) == IF f.kind = "json" THEN f.items ELSE << >>

Has(items, id) == \E i \in DOMAIN items : items[i].id = id

PosOf(items, id) == CHOOSE i \in DOMAIN items : items[i].id = id

Without(items, id) == SelectSeq(items, LAMBDA x : x.id # id)

DirectCall(c, op) == c.via = "direct" /\ c.op = op /\ c.pc # "idle"

HttpDone(c, method) ==
  c.via = "http" /\ c.method = method /\ c.pc = "done"

\* A request on '/api/items/<id>' for which the pattern matched
OnItem(c) == c.via = "http" /\ c.id # << >>

Supplied(val) == val.t = "string"

\* C3: starting from an absent or empty collection file, after any
\* sequence of createItem calls made one after another, listItems returns
\* exactly the records those calls returned, in call order, with pairwise
\* different ids and createdAt = updatedAt.
C3_CreateThenList ==
  \A r \in Conns :
    (DirectCall(conn[r], "listItems") /\ conn[r].pc = "done" /\ hist.pure)
    => /\ conn[r].items = hist.created
       /\ \A i, j \in DOMAIN conn[r].items :
            i # j => conn[r].items[i].id # conn[r].items[j].id
       /\ \A i \in DOMAIN conn[r].items :
            conn[r].items[i].createdAt = conn[r].items[i].updatedAt

C3_Witness ==
  \E r \in Conns :
    /\ DirectCall(conn[r], "listItems") /\ conn[r].pc = "done" /\ hist.pure
    /\ Len(conn[r].items) = 2
    /\ Len(hist.created) = 2

\* What C4 says of one finished update of the existing record c.id: the
\* values the name and the description must have afterwards are given.
UpdateFrame(c, name, description) ==
  /\ Len(Collection(file)) = Len(Collection(c.pre))
  /\ \A j \in DOMAIN Collection(c.pre) :
       IF j # PosOf(Collection(c.pre), c.id)
       THEN Collection(file)[j] = Collection(c.pre)[j]
       ELSE /\ Collection(file)[j].id = c.id
            /\ Collection(file)[j].createdAt = Collection(c.pre)[j].createdAt
            /\ Collection(file)[j].updatedAt >= Collection(c.pre)[j].updatedAt
            /\ Collection(file)[j].name = name
            /\ Collection(file)[j].description = description

Answered(c, status) == Len(c.out) = 1 /\ c.out[1].status = status

\* C4: an update of an existing record (updateItem, or PUT /api/items/:id
\* with any subset of name and description supplied) keeps the record's id,
\* createdAt and position, changes only the supplied fields (to the supplied
\* value, trimmed by the PUT handler), leaves the other records unchanged
\* and sets updatedAt to a value >= the previous updatedAt.
C4_UpdateFrame ==
  \A r \in Conns :
    /\ (DirectCall(conn[r], "updateItem") /\ conn[r].pc = "done"
        /\ Has(Collection(conn[r].pre), conn[r].id))
       => UpdateFrame(conn[r], conn[r].data.name, conn[r].data.description)
    /\ (HttpDone(conn[r], "PUT") /\ OnItem(conn[r])
        /\ Has(Collection(conn[r].pre), conn[r].id))
       => UpdateFrame(conn[r],
            IF Answered(conn[r], 200) /\ Supplied(conn[r].body.name)
            THEN Trim(conn[r].body.name.v)
            ELSE find(Collection(conn[r].pre), conn[r].id).name,
            IF Answered(conn[r], 200) /\ Supplied(conn[r].body.description)
            THEN Trim(conn[r].body.description.v)
            ELSE find(Collection(conn[r].pre), conn[r].id).description)

C4_Witness ==
  \E r \in Conns :
    /\ HttpDone(conn[r], "PUT") /\ Answered(conn[r], 200)
    /\ Supplied(conn[r].body.name) /\ ~Supplied(conn[r].body.description)
    /\ Len(Collection(conn[r].pre)) = 2
    /\ find(Collection(conn[r].pre), conn[r].id).name = <<"a">>
    /\ find(Collection(conn[r].pre), conn[r].id).description = <<"d">>
    /\ find(Collection(file), conn[r].id).name = <<"b">>
    /\ find(Collection(file), conn[r].id).description = <<"d">>
    /\ find(Collection(file), conn[r].id).updatedAt
         > find(Collection(file), conn[r].id).createdAt

\* C5: updateItem with an id no record has returns null and performs no
\* write: the file is the same before, during and after the call.
C5_UpdateAbsent ==
  \A r \in Conns :
    (DirectCall(conn[r], "updateItem") /\ ~Has(Collection(conn[r].pre), conn[r].id))
    => /\ file = conn[r].pre
       /\ conn[r].pc = "done" => conn[r].ret = "null"

C5_Witness ==
  \E r \in Conns :
    /\ DirectCall(conn[r], "updateItem") /\ conn[r].pc = "done"
    /\ conn[r].ret = "null"
    /\ Len(Collection(file)) >= 1
    /\ ~Has(Collection(file), conn[r].id)

\* C6: deleteItem(id) on a collection holding a record with that id removes
\* exactly that record, keeps the others in order and returns true; called
\* (again) when no record has the id, it returns false and the file stays
\* as it was.
C6_Delete ==
  \A r \in Conns :
    /\ (DirectCall(conn[r], "deleteItem") /\ conn[r].pc = "done"
        /\ Has(Collection(conn[r].pre), conn[r].id))
       => /\ conn[r].ret = "true"
          /\ file.kind = "json"
          /\ file.items = Without(Collection(conn[r].pre), conn[r].id)
          /\ Len(file.items) = Len(Collection(conn[r].pre)) - 1
    /\ (DirectCall(conn[r], "deleteItem")
        /\ ~Has(Collection(conn[r].pre), conn[r].id))
       => /\ file = conn[r].pre
          /\ conn[r].pc = "done" => conn[r].ret = "false"

\* the second of two deleteItem calls for an id that was created before,
\* with another record still in the collection
C6_Witness ==
  \E r \in Conns :
    /\ DirectCall(conn[r], "deleteItem") /\ conn[r].pc = "done"
    /\ conn[r].ret = "false"
    /\ uuids = 2
    /\ conn[r].id = randomUUID(1)
    /\ Len(Collection(file)) = 1


ItemPath(id) == p_api_items \o <<Slash>> \o id

NonBlankName(val) == val.t = "string" /\ Trim(val.v) # << >>

\* The end-to-end sequence of one client issuing requests one after
\* another, with the status and body expected of the DELETE as parameters:
\* POST /api/items with a non-blank name answers 201 with a record carrying
\* a generated id; GET /api/items/<id> of a stored record answers 200 with
\* that record; PUT /api/items/<id> with name "" answers 400; DELETE
\* /api/items/<id> removes the record; GET /api/items/<id> afterwards
\* answers 404.
EndToEnd(deleteStatus, deleteBody) ==
  \A r \in Conns :
    /\ (HttpDone(conn[r], "POST") /\ conn[r].path = p_api_items
        /\ conn[r].body.kind = "object" /\ NonBlankName(conn[r].body.name)
        /\ conn[r].body.description.t # "number")
       => /\ Answered(conn[r], 201)
          /\ conn[r].out[1].body.t = "item"
          /\ conn[r].out[1].body.item.id \in KnownIds
          /\ ~Has(Collection(conn[r].pre), conn[r].out[1].body.item.id)
          /\ Has(Collection(file), conn[r].out[1].body.item.id)
    /\ \A id \in KnownIds :
         /\ (HttpDone(conn[r], "GET") /\ conn[r].path = ItemPath(id)
             /\ Has(Collection(conn[r].pre), id))
            => /\ Answered(conn[r], 200)
               /\ conn[r].out[1].body = BodyItem(find(Collection(conn[r].pre), id))
         /\ (HttpDone(conn[r], "PUT") /\ conn[r].path = ItemPath(id)
             /\ Has(Collection(conn[r].pre), id)
             /\ conn[r].body.kind = "object" /\ conn[r].body.name = JsString(<< >>))
            => Answered(conn[r], 400)
         /\ (HttpDone(conn[r], "DELETE") /\ conn[r].path = ItemPath(id)
             /\ Has(Collection(conn[r].pre), id))
            => /\ Answered(conn[r], deleteStatus)
               /\ conn[r].out[1].body = deleteBody
               /\ ~Has(Collection(file), id)
         /\ (HttpDone(conn[r], "GET") /\ conn[r].path = ItemPath(id)
             /\ ~Has(Collection(conn[r].pre), id))
            => Answered(conn[r], 404)

GenericNotFound(c) ==
  \E i \in DOMAIN c.out : c.out[i] = sendJson(404, BodyError("Not found"))

\* C8: for every API request handleApi tries the registered handlers in
\* registration order, stops at the first one that returns true (no later
\* handler runs, no second response is written), and sends the generic 404
\* {error: "Not found"} if and only if every handler returned false; a
\* handler that returned false has written no response.
C8_HandlerChain ==
  \A r \in Conns :
    (conn[r].via = "http" /\ conn[r].method # "OPTIONS")
    => /\ Len(conn[r].out) <= 1
       /\ Len(conn[r].tried) <= Len(HANDLERS)
       /\ \A i \in DOMAIN conn[r].tried :
            /\ conn[r].tried[i].h = HANDLERS[i]
            /\ i < Len(conn[r].tried) => conn[r].tried[i].ret = "false"
            /\ conn[r].tried[i].ret = "false" => conn[r].tried[i].wrote = 0
       /\ conn[r].pc = "done"
          => (GenericNotFound(conn[r])
              <=> /\ Len(conn[r].tried) = Len(HANDLERS)
                  /\ \A i \in DOMAIN conn[r].tried : conn[r].tried[i].ret = "false")

C8_Witness ==
  \E r \in Conns :
    /\ HttpDone(conn[r], "PATCH") /\ conn[r].path = p_api_items
    /\ conn[r].tried = <<[h |-> "handleItems", ret |-> "false", wrote |-> 0]>>
    /\ conn[r].out = <<sendJson(404, BodyError("Not found"))>>

InvalidPostName(body) ==
  body.kind # "malformed" /\ ~NonBlankName(body.name)

InvalidPutName(body) ==
  body.kind = "object" /\ body.name.t # "undefined" /\ ~NonBlankName(body.name)

\* The request path has the shape /api/items/<segment>
IsItemPath(path) ==
  /\ Len(path) > Len(p_api_items) + 1
  /\ SubSeq(path, 1, Len(p_api_items) + 1) = p_api_items \o <<Slash>>
  /\ \A i \in (Len(p_api_items) + 2)..Len(path) : path[i] # Slash

BadRequest(c) ==
  /\ Answered(c, 400)
  /\ c.out[1].body.t = "error"
  /\ c.out[1].body.error # ""

\* C9 as stated: a POST /api/items whose name is missing, not a string or
\* blank after trimming, and a PUT /api/items/:id whose supplied name is not
\* a string or blank after trimming, are answered with 400 and an {error}
\* body, and the persisted collection is the same before and after.
C9_AsStated ==
  \A r \in Conns :
    /\ (HttpDone(conn[r], "POST") /\ conn[r].path = p_api_items
        /\ InvalidPostName(conn[r].body))
       => BadRequest(conn[r]) /\ file = conn[r].pre
    /\ (HttpDone(conn[r], "PUT") /\ IsItemPath(conn[r].path)
        /\ InvalidPutName(conn[r].body))
       => BadRequest(conn[r]) /\ file = conn[r].pre

\* C9: a POST /api/items whose name is missing, not a string or blank after
\* trimming is answered with 400 and an {error} body; so is a PUT
\* /api/items/:id with a supplied name that is not a string or is blank
\* after trimming, provided a record with that id exists; when no record
\* has the id the PUT is answered 404 {error: "Item not found"} whatever
\* its body, and 500 when the id segment is malformed percent-encoding.
\* In each of these cases the file is never written.
C9_Validation ==
  \A r \in Conns :
    /\ (conn[r].via = "http" /\ conn[r].method = "POST" /\ conn[r].path = p_api_items
        /\ InvalidPostName(conn[r].body))
       => /\ file = conn[r].pre
          /\ conn[r].pc = "done" => BadRequest(conn[r])
    /\ (conn[r].via = "http" /\ conn[r].method = "PUT" /\ IsItemPath(conn[r].path)
        /\ InvalidPutName(conn[r].body))
       => /\ file = conn[r].pre
          /\ conn[r].pc = "done"
             => IF ~OnItem(conn[r])
                THEN conn[r].out = <<internalError>>
                ELSE IF Has(Collection(conn[r].pre), conn[r].id)
                THEN BadRequest(conn[r])
                ELSE conn[r].out = <<sendJson(404, BodyError("Item not found"))>>

\* a PUT on a stored record with a name of one space
C9_Witness ==
  \E r \in Conns :
    /\ HttpDone(conn[r], "PUT") /\ OnItem(conn[r])
    /\ Has(Collection(conn[r].pre), conn[r].id)
    /\ conn[r].body.kind = "object"
    /\ conn[r].body.name = JsString(<<Space>>)
    /\ BadRequest(conn[r])
    /\ file = conn[r].pre

\* ------------------------------------------------------------------------
\* Properties of matchPath
\* ------------------------------------------------------------------------
IsParam(seg) == Len(seg) > 0 /\ seg[1] = Colon

ParamName(seg) == SubSeq(seg, 2, Len(seg))

\* same number of segments, and the literal segments are equal
SegmentsAgree(pat, path) ==
  /\ Len(pat) = Len(path)
  /\ \A i \in DOMAIN pat : ~IsParam(pat[i]) => pat[i] = path[i]

\* C10 as stated: matchPath returns a binding if and only if pattern and
\* path have the same number of segments and every pattern segment not
\* starting with ':' equals the path segment at its position; the binding
\* maps each ':name' segment to the path segment at that position.
C10_AsStated ==
  mpResult.kind # "pending"
  => /\ mpResult.kind = "params" <=> SegmentsAgree(mpPattern, mpPath)
     /\ mpResult.kind = "params"
        => \A i \in DOMAIN mpPattern :
             IsParam(mpPattern[i])
             => /\ ParamName(mpPattern[i]) \in DOMAIN mpResult.params
                /\ mpResult.params[ParamName(mpPattern[i])] = mpPath[i]

\* C10: matchPath returns a binding if and only if pattern and path have
\* the same number of (non-empty) segments, every pattern segment not
\* starting with ':' equals the path segment at its position, and every
\* path segment at the position of a ':name' segment is well-formed
\* percent-encoding (otherwise the call returns null or throws).  The
\* binding has exactly the names of the pattern and maps each name to the
\* percent-decoded path segment at the last position where the name occurs.
\* '/api/items/:id' matches '/api/items/42' with id = '42' and matches
\* neither '/api/items/42/extra' nor '/api/items'.
C10_MatchPath ==
  mpResult.kind # "pending"
  => /\ mpResult.kind = "params"
        <=> /\ SegmentsAgree(mpPattern, mpPath)
            /\ \A i \in DOMAIN mpPattern :
                 IsParam(mpPattern[i]) => decodeURIComponent(mpPath[i]).ok
     /\ mpResult.kind = "params"
        => /\ DOMAIN mpResult.params
                = {ParamName(mpPattern[i]) : i \in {j \in DOMAIN mpPattern : IsParam(mpPattern[j])}}
           /\ \A i \in DOMAIN mpPattern :
                (/\ IsParam(mpPattern[i])
                 /\ \A j \in DOMAIN mpPattern : j > i => mpPattern[j] # mpPattern[i])
                => mpResult.params[ParamName(mpPattern[i])]
                     = decodeURIComponent(mpPath[i]).v
     /\ mpResult.kind = "throw"
        <=> /\ Len(mpPattern) = Len(mpPath)
            /\ \E i \in DOMAIN mpPattern :
                 /\ IsParam(mpPattern[i])
                 /\ ~decodeURIComponent(mpPath[i]).ok
                 /\ \A j \in 1..(i - 1) :
                      IsParam(mpPattern[j]) \/ mpPattern[j] = mpPath[j]
     /\ mpPattern = <<s_api, s_items, s_colon_id>>
        => /\ mpPath = <<s_api, s_items, s_42>>
              => mpResult = [kind |-> "params", params |-> (s_id :> s_42)]
           /\ mpPath \in {<<s_api, s_items, s_42, s_extra>>, <<s_api, s_items>>}
              => mpResult.kind = "null"

C10_Witness ==
  /\ mpPattern = <<s_api, s_items, s_colon_id>>
  /\ mpPath = <<s_api, s_items, s_42>>
  /\ mpResult.kind = "params"
  /\ mpResult.params[s_id] = s_42

\* ------------------------------------------------------------------------
\* Properties of the client router
\* ------------------------------------------------------------------------
\* C1: every cleanup function a handler returned is invoked exactly once
\* when the view is navigated away from, and before the next view's handler
\* is invoked, whatever the interleaving of navigations with cleanups and
\* handlers that are still awaited.
C1_CleanupOrdering ==
  /\ \A i \in Navs : cleanupCalls[i] <= 1
  /\ \A i \in returned : i # currentCleanup => cleanupCalls[i] = 1
  /\ \A j \in Navs :
       runs[j].pc = "handler" => \A i \in runs[j].away : cleanupCalls[i] = 1

\* C2: a route handler is never in progress while another route handler is
\* in progress or while a cleanup has not completed.
C2_SingleActiveView ==
  \A i, j \in Navs :
    (i # j /\ runs[i].pc = "handler") => runs[j].pc \notin {"handler", "cleanup"}


\* ------------------------------------------------------------------------
\* Properties of the collection file and of failing reads and writes
\* ------------------------------------------------------------------------
\* C11: in every reachable state, also in the middle of and between
\* concurrent mutating requests, the collection file is absent or holds a
\* complete JSON array, and no read observes a partially written file.
C11_FileAlwaysValid ==
  /\ file.kind \in {"absent", "json"}
  /\ \A r \in Conns : conn[r].saw # "partial"

\* The operation of task c failed: the storage function rejected, or the
\* request was answered with the 500 of handleRequest
Failed(c) ==
  IF c.via = "direct" THEN c.ret = "throw"
  ELSE c.out = <<sendJson(500, BodyError("Internal server error"))>>

\* C12: when the file exists but does not hold valid JSON, the read fails
\* and the failure is propagated: no list, get, create, update or delete
\* operation treats the file as an empty collection or overwrites it.
C12_CorruptFileFails ==
  \A r \in Conns :
    (conn[r].pc # "idle" /\ conn[r].saw = "partial")
    => /\ file = conn[r].pre
       /\ conn[r].pc = "done" => Failed(conn[r])

\* C13: an I/O failure while reading or writing the collection file, other
\* than the file not existing, propagates out of the CRUD operation, and
\* the request is answered with exactly one 500 response with an {error}
\* body, never with a success response or an empty result.
C13_IOFailurePropagates ==
  \A r \in Conns :
    /\ (conn[r].pc = "done" /\ conn[r].saw = "error") => Failed(conn[r])
    /\ (conn[r].pc = "done" /\ disk \in {"writefail", "full"}
        /\ conn[r].via = "direct" /\ conn[r].op = "createItem")
       => Failed(conn[r])
    /\ (HttpDone(conn[r], "POST") /\ disk \in {"writefail", "full"}
        /\ conn[r].path = p_api_items
        /\ conn[r].body.kind = "object" /\ NonBlankName(conn[r].body.name))
       => Failed(conn[r])

\* C14: a request body that is malformed JSON is treated as the empty
\* object, so that the field checks decide: a POST /api/items with a
\* malformed body is answered 400 'Name is required'.
C14_LenientBody ==
  \A r \in Conns :
    (HttpDone(conn[r], "POST") /\ conn[r].path = p_api_items
     /\ conn[r].body.kind = "malformed")
    => conn[r].out = <<sendJson(400, BodyError("Name is required"))>>

\* C15: a PUT /api/items/:id whose updateItem call found no record with the
\* id (returned null) is answered 404 and never with a success response,
\* in every interleaving with concurrent DELETE requests.
C15_PutAbsentIs404 ==
  \A r \in Conns :
    (HttpDone(conn[r], "PUT") /\ conn[r].op = "updateItem" /\ conn[r].item = NoItem)
    => Answered(conn[r], 404)

Success(c) == Len(c.out) = 1 /\ c.out[1].status \in {200, 201, 204}

\* C16: of two concurrent DELETE requests for the same id, both made while
\* the record existed, at most one is answered with success and the other
\* is answered 404.
C16_DeleteOnce ==
  \A r1, r2 \in Conns :
    (/\ r1 # r2
     /\ HttpDone(conn[r1], "DELETE") /\ HttpDone(conn[r2], "DELETE")
     /\ OnItem(conn[r1]) /\ conn[r1].id = conn[r2].id
     /\ Has(Collection(conn[r1].pre), conn[r1].id)
     /\ Has(Collection(conn[r2].pre), conn[r2].id))
    => \/ Success(conn[r1]) /\ Answered(conn[r2], 404)
       \/ Success(conn[r2]) /\ Answered(conn[r1], 404)

\* A POST /api/items that was answered 201
Created(c) == HttpDone(c, "POST") /\ Answered(c, 201)

\* The array a finished createItem had read: what it wrote, less its record
ReadBy(c) == Without(c.items, c.item.id)

\* C20: two concurrent creating requests can both succeed while the file
\* keeps only one of the two records: whenever two POST /api/items that
\* read the same array have both been answered 201, the file does not hold
\* both created records (it holds the array of the writer that wrote last,
\* which has at most one of them).
C20_LostUpdate ==
  \A r1, r2 \in Conns :
    (r1 # r2 /\ Created(conn[r1]) /\ Created(conn[r2])
     /\ ReadBy(conn[r1]) = ReadBy(conn[r2]))
    => /\ conn[r1].item.id # conn[r2].item.id
       /\ ~(/\ Has(Collection(file), conn[r1].item.id)
            /\ Has(Collection(file), conn[r2].item.id))

\* both POSTs answered 201 with different records, one record in the file
C20_Witness ==
  \E r1, r2 \in Conns :
    /\ r1 # r2 /\ Created(conn[r1]) /\ Created(conn[r2])
    /\ conn[r1].out[1].body.item.id # conn[r2].out[1].body.item.id
    /\ file.kind = "json"
    /\ Len(file.items) = 1
    /\ file.items[1] = conn[r2].out[1].body.item


\* ------------------------------------------------------------------------
\* Properties of the click listener
\* ------------------------------------------------------------------------
\* C17: a click on an anchor is turned into a client-side navigation if and
\* only if the anchor is same-origin, has no download attribute and no
\* target="_blank", and the click carries no modifier key; every other
\* click is left to the browser.
C17_LinkInterception ==
  ckResult # "pending"
  => /\ ckResult \in {"navigate", "native"}
     /\ ckResult = "navigate"
        <=> /\ LinkOrigin(ckLink.href) = "same"
            /\ ~ckLink.download
            /\ ~ckLink.blank
            /\ ~(ckLink.metaKey \/ ckLink.ctrlKey \/ ckLink.shiftKey \/ ckLink.altKey)


\* ------------------------------------------------------------------------
\* Properties of the static file server
\* ------------------------------------------------------------------------
\* The file the request asks for ('/' asks for the entry document)
Asked == IF st.path = p_root THEN f_index ELSE st.path

\* The request paths of the model by extension: recognized (in the MIME
\* table), not recognized, none
RecognizedPaths == {f_index, f_app, f_gone_css}
UnrecognizedPaths == {f_data, f_gone_xyz}
PlainPaths == {f_hidden, d_lib, p_settings}

ContentTypeOf(path) ==
  IF path = f_index THEN "text/html; charset=utf-8"
  ELSE IF path = f_app THEN "text/javascript; charset=utf-8"
  ELSE IF path = f_gone_css THEN "text/css; charset=utf-8"
  ELSE "application/octet-stream"

\* C18: for a request path that does not exist under the client directory
\* the server serves the entry document index.html with status 200 when
\* the path has no extension or one that is not in the MIME table (404
\* when there is no index.html to serve), and answers a plain-text 404
\* when the extension is recognized; an existing file is served with
\* status 200 and the content type of its extension (application/
\* octet-stream for an extension the table does not have).
C18_StaticFallback ==
  st.pc = "done"
  => /\ (Asked \notin st.tree.files \cup st.tree.dirs /\ Asked \in RecognizedPaths)
        => st.resp = [status |-> 404, type |-> "text/plain", body |-> <<"Not found">>]
     /\ (Asked \notin st.tree.files \cup st.tree.dirs
         /\ Asked \in UnrecognizedPaths \cup PlainPaths)
        => st.resp = IF f_index \in st.tree.files
                     THEN [status |-> 200, type |-> "text/html; charset=utf-8",
                           body |-> f_index]
                     ELSE [status |-> 404, type |-> "text/plain", body |-> <<"Not found">>]
     /\ Asked \in st.tree.files
        => st.resp = [status |-> 200, type |-> ContentTypeOf(Asked), body |-> Asked]

\* '/g.xyz' does not exist and index.html is served for it
C18_Witness ==
  /\ st.pc = "done"
  /\ st.path = f_gone_xyz
  /\ st.tree.files = {f_index, f_app}
  /\ st.resp = [status |-> 200, type |-> "text/html; charset=utf-8", body |-> f_index]


\* ------------------------------------------------------------------------
\* Properties of the API client
\* ------------------------------------------------------------------------
NetworkErrorObject ==
  [kind |-> "resolved", ok |-> FALSE, status |-> 0, data |-> "{error: 'Network error'}"]

\* C19 as stated: api() never rejects; a network failure is returned as
\* the failed response object (ok = false, status 0, data = {error:
\* 'Network error'}); exactly one request is issued per call, none again.
C19_AsStated ==
  ac.pc = "done"
  => /\ ac.out.kind = "resolved"
     /\ ac.fetches = 1
     /\ ac.net.kind = "reject" => ac.out = NetworkErrorObject

\* C19: for a body option that is absent or that JSON.stringify can
\* serialize, api() never rejects: a network failure is returned as the
\* failed response object (ok = false, status 0, data = {error: 'Network
\* error'}), a response is returned with its own status, and exactly one
\* request is issued, none again.  With a body on which JSON.stringify
\* throws, the call rejects before any request is issued.
C19_ApiNeverRejects ==
  /\ ac.fetches <= 1
  /\ ac.pc = "done"
     => IF ac.body = "unserializable"
        THEN ac.out.kind = "rejected" /\ ac.fetches = 0
        ELSE /\ ac.out.kind = "resolved"
             /\ ac.fetches = 1
             /\ IF ac.net.kind = "reject" THEN ac.out = NetworkErrorObject
                ELSE /\ ac.out.status = ac.net.status
                     /\ ac.out.ok <=> ac.net.status \in {200, 204}

C19_Witness ==
  /\ ac.pc = "done"
  /\ ac.body = "object"
  /\ ac.net.kind = "reject"
  /\ ac.fetches = 1
  /\ ac.out = NetworkErrorObject



\* ------------------------------------------------------------------------
\* Properties of the route lookup
\* ------------------------------------------------------------------------
\* The calls of route() that registered a pattern, and the handler the
\* latest of them passed
RegistrationsOf(pattern) == {k \in DOMAIN registered : registered[k].pattern = pattern}
LatestHandler(pattern) ==
  registered[CHOOSE k \in RegistrationsOf(pattern) :
               \A j \in RegistrationsOf(pattern) : j <= k].handler

\* What matchRoute returns for the pattern of the k-th call of route() and
\* the path of the latest lookup
LookupMatch(k) == matchRoute(registered[k].pattern, lookup.path).kind

\* The k-th call of route() registered the first pattern, in the order the
\* patterns were registered, that matches the path of the latest lookup
FirstMatching(k) ==
  /\ LookupMatch(k) = "params"
  /\ \A j \in 1..(k - 1) : LookupMatch(j) = "null"

\* C21: a navigation matches its path against the registered patterns in
\* the order in which the patterns were registered and invokes the handler
\* of the first pattern that matches, and no other route handler; a pattern
\* registered more than once keeps its place and has the handler of its
\* latest registration.
C21_MatchOrder ==
  lookup # NoLookup =>
    /\ \A k \in DOMAIN registered :
         FirstMatching(k) => lookup.handler = LatestHandler(registered[k].pattern)
    /\ lookup.handler \in RouteHandlers => \E k \in DOMAIN registered : FirstMatching(k)

C21_Witness ==
  /\ lookup.handler \in RouteHandlers
  /\ \E k1, k2, k3 \in DOMAIN registered :
       /\ k1 < k2 /\ k2 < k3
       /\ registered[k1].pattern = registered[k3].pattern
       /\ registered[k2].pattern # registered[k1].pattern
       /\ LookupMatch(k1) = "params"
       /\ LookupMatch(k2) = "params"
       /\ lookup.handler = registered[k3].handler

\* C22: the client router's matchRoute and the server's matchPath agree on
\* every pattern and every path: both return null, or both return the same
\* parameter binding (or both throw on a malformed percent-escape).
C22_SameMatcher ==
  (mpResult # MatchPending /\ mrResult # MatchPending) => mrResult = mpResult

C22_Witness ==
  /\ mpPattern = <<s_api, s_items, s_colon_id>>
  /\ mpPath = <<s_api, s_items, s_pct41>>
  /\ mpResult.kind = "params"
  /\ mrResult.kind = "params"
  /\ mrResult.params[s_id] = <<"A">>

\* ------------------------------------------------------------------------
\* Properties of the not-found handler and of failing cleanups
\* ------------------------------------------------------------------------
\* matchRoute returns null for every registered pattern and the path of
\* the latest lookup
NoPatternMatches ==
  \A i \in DOMAIN routes : matchRoute(routes[i].pattern, lookup.path).kind = "null"

\* The run n has just had the function its handler returned stored
HandlerReturnedFunction(n) ==
  /\ runs[n].pc = "handler"
  /\ n \notin returned
  /\ n \in returned'

CleanupFailsIn(n) ==
  /\ failed' # failed
  /\ runs'[n] # runs[n]

\* C24: a cleanup that throws or rejects does not stop the navigation that
\* invoked it: the route lookup runs for the new path and invokes the
\* handler it finds; and the failed cleanup is no longer the pending one
\* and is not invoked by any later navigation.
C24_CleanupFailure ==
  /\ [](\A i \in failed : currentCleanup # i)
  /\ [][/\ \A i \in failed : cleanupCalls'[i] = cleanupCalls[i]
        /\ \A n \in Navs :
             CleanupFailsIn(n)
               => /\ runs'[n].pc \in {"handler", "done"}
                  /\ lookup'.path \in Locations
                  /\ lookup'.handler = FirstMatch(routes, lookup'.path)
                     \/ /\ FirstMatch(routes, lookup'.path) \in {"", "throw"}
                        /\ lookup'.handler \in {"", notFoundHandler}
                  /\ lookup'.handler # ""
                       => runs'[n].pc = "handler" /\ runs'[n].handler = lookup'.handler
                  /\ lookup'.handler = ""
                       => \/ FirstMatch(routes, lookup'.path) = "throw"
                          \/ FirstMatch(routes, lookup'.path) = "" /\ notFoundHandler = ""]_vars

C24_Witness ==
  \E i \in failed :
    /\ cleanupCalls[i] = 1
    /\ nruns >= i + 2
    /\ \E n \in Navs : n > i /\ runs[n].pc = "handler" /\ runs[n].handler \in RouteHandlers

\* C25: no cleanup is lost.  A function a handler returned stays the
\* pending cleanup until a navigation invokes it, and the pending cleanup is
\* always the one of the most recently started view: no later run has its
\* handler in progress or has returned a function of its own.
C25_NoCleanupLost ==
  /\ \A i \in returned : i = currentCleanup \/ cleanupCalls[i] >= 1
  /\ currentCleanup # 0
       => \A j \in Navs :
            j > currentCleanup => runs[j].pc # "handler" /\ j \notin returned

\* ------------------------------------------------------------------------
\* Properties of the atomic JSON file
\* ------------------------------------------------------------------------
\* The writers that have a temp file of their own at the moment
HasTemp(i) == fsys.w[i].pc \in {"write", "rename"}

\* C26: with any number of writeJsonFileAtomic calls in progress, the file
\* at the path is absent or complete; a readJsonFile returns null, the
\* previous content or the content of one of the writes, and never fails
\* on partial content; no two calls in progress share a temp file; and
\* when no call is in progress after a write, the file holds the data of
\* one of the writes.
C26_AtomicWrite ==
  /\ fsys.target.kind \in {"absent", "json"}
  /\ \A i \in Readers :
       fsys.r[i].pc = "done" => fsys.r[i].ret \in {"null", OldData} \cup fsys.wrote
  /\ \A i, j \in Writers :
       (i # j /\ HasTemp(i) /\ HasTemp(j)) => fsys.w[i].temp # fsys.w[j].temp
  /\ \A i \in Writers : fsys.w[i].pc = "done" => fsys.w[i].ret = "undefined"
  /\ ((\A i \in Writers : fsys.w[i].pc \in {"idle", "done"}) /\ fsys.wrote # {})
       => fsys.target.kind = "json" /\ fsys.target.data \in fsys.wrote

C26_Witness ==
  /\ fsys.wrote = Datas
  /\ \E i \in Readers : fsys.r[i].pc = "done" /\ fsys.r[i].ret \in Datas
  /\ \E i \in Writers : fsys.w[i].pc = "rename"

\* ------------------------------------------------------------------------
\* Properties of the toast module
\* ------------------------------------------------------------------------
\* The alerts that are showing and have not been asked to hide
Showing == {e \in Alerts : ts.alerts[e].state = "open"}

\* The alerts created with an id, and the latest of them
WithId(id) == {e \in Alerts : ts.alerts[e].toastId = id}
Latest(id) == CHOOSE e \in WithId(id) : \A f \in WithId(id) : f <= e

\* C27: of the toasts created with one caller-supplied id at most one is
\* showing without having been asked to hide, and while the latest toast
\* of an id is showing the Map entry of the id exists and refers to it.
C27_Deduplication ==
  \A id \in ToastIds :
    /\ Cardinality(WithId(id) \cap Showing) <= 1
    /\ MapHas(ts.activeToasts, id) => MapGet(ts.activeToasts, id) = Latest(id)
    /\ (WithId(id) # {} /\ Latest(id) \in Showing) => MapHas(ts.activeToasts, id)

\* C28: the number of toasts that are showing and have not been asked to
\* hide never exceeds MAX_TOASTS.
C28_ToastLimit == Cardinality(Showing) <= MAX_TOASTS

\* ------------------------------------------------------------------------
\* Properties of the loading overlay
\* ------------------------------------------------------------------------
Pending(i) == ld.calls[i] \in {"promise", "fn"}

\* C29: there is never more than one overlay element; an overlay is present
\* whenever a promise passed to withLoading or started by
\* withLoadingProgress is still pending; and none is left when all of them
\* have settled.
C29_LoadingOverlay ==
  /\ Cardinality(ld.overlays) <= 1
  /\ (\E i \in Loads : Pending(i)) => ld.overlays # {}
  /\ (\A i \in Loads : ~Pending(i)) => ld.overlays = {}

\* ------------------------------------------------------------------------
\* Properties of debounce
\* ------------------------------------------------------------------------
\* fn is entered in this step
FnInvoked == Len(db'.invoked) = Len(db.invoked) + 1

\* C30: fn is invoked at most once per burst of calls, with the argument
\* of the latest call, and never after cancel() unless a new call was
\* made; flush() invokes fn at once exactly when a call is pending, and no
\* timer is left to invoke it again; and every call that is not followed
\* by cancel(), also one made from inside fn, leads to an invocation of fn
\* with its argument or that of a later call.
C30_Debounce ==
  /\ [][/\ FnInvoked => /\ db.owed # 0
                        /\ db'.invoked[Len(db'.invoked)] = db.owed
                        /\ db.owed = db.calls
        /\ db'.op = "flush" /\ ~db.running /\ ~db'.running
             => db.owed = 0 /\ db' = [db EXCEPT !.op = "flush"]
        /\ db'.op = "flush" /\ ~db.running /\ db.owed # 0
             => FnInvoked /\ db'.timers = {}]_vars
  /\ [](db.typeErrors = 0)
  /\ (db.owed # 0) ~> (db.owed = 0)
====
